---- MODULE Spec2Model ----
(***************************************************************************)
(* Model of RPCManager (src/src/rpc-manager.ts): the manager of the        *)
(* communication between a client and the Zoiper5 RPC API server.          *)
(*                                                                         *)
(* JavaScript runs the manager on one thread.  An async function runs      *)
(* until it awaits a reply that has not arrived; when the reply is handed  *)
(* to processMessage, the continuation runs (as microtasks) up to the next *)
(* await before any other message or caller code runs.  So one action of   *)
(* the model is one call by the local caller (initialize, a property read, *)
(* a property write, a proxy method call) or one inbound message, together *)
(* with everything the code does until every task is suspended again.      *)
(***************************************************************************)
EXTENDS Naturals, Sequences, FiniteSets

VARIABLES
    lastScriptObjectId,     \* RPCManager._lastScriptObjectId
    scriptObjectIdMap,      \* RPCManager._scriptObjectIdMap: reference -> handle
    globalCallbacksMap,     \* RPCManager._globalCallbacksMap, in Object.entries order
    scriptObjectListStack,  \* RPCManager._scriptObjectListStack, index 1 is the front
    jrpcId,                 \* simple_jsonrpc: id of the last request sent
    waiting,                \* simple_jsonrpc: pending request id -> the task awaiting it
    sent,                   \* the requests handed to sendMessage, in order
    replies,                \* the replies to callbacks handed to sendMessage, in order
    ops,                    \* the caller's async tasks: initialize, get, set, call
    callbacks,              \* the runs of _handleAPICallback, in order of arrival
    describes,              \* the runs of _describeScriptObject
    proxies,                \* the objects built by _describeScriptObject
    invocations,            \* the calls made to local functions by _handleAPICallback
    inbound,                \* the message processMessage was last called with
    sendMessage,            \* RPCManager.sendMessage: the method of the class, or
                            \* the function supplied in its place
    sendErrors,             \* how many times sendMessage has thrown
    connectionManager,      \* ConnectionManager: _socket, onClose, and how often
                            \* onClose has been called
    sockets,                \* the WebSockets made by openConnection, in order
    processed               \* the calls of processMessage made by onmessage

vars == <<lastScriptObjectId, scriptObjectIdMap, globalCallbacksMap,
          scriptObjectListStack, jrpcId, waiting, sent, replies, ops, callbacks,
          describes, proxies, invocations, inbound, sendMessage, sendErrors,
          connectionManager, sockets, processed>>

\* the variables of the RPCManager, those of the ConnectionManager
connectionVars == <<connectionManager, sockets, processed>>

(***************************************************************************)
(* Bounds of the model.                                                    *)
(***************************************************************************)
MaxUserOps == 2        \* property reads, writes and method calls by the caller
MaxCallbacks == 1      \* inbound `callback` requests sent by the peer

(***************************************************************************)
(* Values.  One record shape for local values and wire values:            *)
(*   boolean/number/string  scalars (n or s holds the value)               *)
(*   undefined, null        the absence value and null                     *)
(*   function, object       local references, n is their identity          *)
(*   proxy                  an object built by _describeScriptObject, n is *)
(*                          its index in proxies                           *)
(*   empty, scriptObject    the wire objects {type:"empty"} and            *)
(*                          {type:"scriptObject", scriptObject:n}          *)
(*   other                  a wire object with any other type field        *)
(*   thrown                 not a value: the operation threw               *)
(***************************************************************************)
Val(t, n, s) == [type |-> t, n |-> n, s |-> s]

API_VALUE_TYPE_EMPTY == "empty"
API_VALUE_TYPE_SCRIPT_OBJECT == "scriptObject"
API_VALUE_INVALID_SCRIPT_OBJECT == 0
API_CLIENT_METHOD_CALLBACK == "callback"
API_SERVER_METHOD_AUTHENTICATE == "authenticate"
API_SERVER_METHOD_GET_ROOT_OBJECT == "getRootObject"
API_SERVER_METHOD_GET_VALUE == "get"
API_SERVER_METHOD_SET_VALUE == "set"
API_SERVER_METHOD_CALL_FUNCTION == "execute"
API_SERVER_METHOD_DESCRIBE_VARIABLES == "listProperties"
API_SERVER_METHOD_DESCRIBE_FUNCTIONS == "listMethods"

Bool(b) == Val("boolean", IF b THEN 1 ELSE 0, "")
Num(n) == Val("number", n, "")
Str(s) == Val("string", 0, s)
Undefined == Val("undefined", 0, "")
Null == Val("null", 0, "")
Fn(i) == Val("function", i, "")
Obj(i) == Val("object", i, "")
Proxy(i) == Val("proxy", i, "")
Empty == Val(API_VALUE_TYPE_EMPTY, 0, "")
SO(h) == Val(API_VALUE_TYPE_SCRIPT_OBJECT, h, "")
Other == Val("other", 0, "")
Thrown(s) == Val("thrown", 0, s)
NotFound(h) == Val("thrown", h, "Function was not found - ID")

IsThrown(v) == v.type = "thrown"

\* isPlainValueType
isPlainValueType(v) == v.type \in {"boolean", "number", "string"}

\* `arg instanceof Object`: true of functions and objects, not of scalars, null
\* or undefined
InstanceofObject(v) == v.type \in {"function", "object", "proxy"}

\* a defect: `if (!callbackFunction)` in place of the typeof test
IsTruthy(v) == v.type # "undefined"

\* `typeof x === 'function'`; undefined (nothing found) is not a function
TypeofFunction(v) == v.type = "function"

(***************************************************************************)
(* Sequence helpers.                                                       *)
(***************************************************************************)
Range(s) == {s[i] : i \in 1..Len(s)}

RECURSIVE Filter(_, _)
Filter(s, S) ==
    IF s = <<>> THEN <<>>
    ELSE IF Head(s) \in S THEN <<Head(s)>> \o Filter(Tail(s), S)
    ELSE Filter(Tail(s), S)

Map1(s, Op(_)) == [i \in 1..Len(s) |-> Op(s[i])]

Min(S) == CHOOSE x \in S : \A y \in S : x <= y

(***************************************************************************)
(* The state as one record, so that the code's functions are operators     *)
(* from state to state and an action is their composition.                 *)
(***************************************************************************)
State ==
    [last |-> lastScriptObjectId, idMap |-> scriptObjectIdMap,
     globals |-> globalCallbacksMap, stack |-> scriptObjectListStack,
     jid |-> jrpcId, waiting |-> waiting, sent |-> sent, replies |-> replies,
     ops |-> ops, callbacks |-> callbacks, describes |-> describes, proxies |-> proxies, invocations |-> invocations,
     send |-> sendMessage, sendErrors |-> sendErrors]

BecomesManager(S, message) ==
    /\ inbound' = message
    /\ lastScriptObjectId' = S.last
    /\ scriptObjectIdMap' = S.idMap
    /\ globalCallbacksMap' = S.globals
    /\ scriptObjectListStack' = S.stack
    /\ jrpcId' = S.jid
    /\ waiting' = S.waiting
    /\ sent' = S.sent
    /\ replies' = S.replies
    /\ ops' = S.ops
    /\ callbacks' = S.callbacks
    /\ describes' = S.describes
    /\ proxies' = S.proxies
    /\ invocations' = S.invocations
    /\ sendMessage' = S.send
    /\ sendErrors' = S.sendErrors

\* a step of the RPCManager in which the ConnectionManager has no part
Becomes(S, message) ==
    /\ BecomesManager(S, message)
    /\ UNCHANGED connectionVars

(***************************************************************************)
(* Messages sent.  A request has a method; a reply (to an inbound callback) has *)
(* no method and carries a result or an error.  The model keeps the        *)
(* requests and the replies it sends in two sequences, and notes with each *)
(* request the task of the caller it was sent by (0: by the handling of an *)
(* inbound callback).                                                      *)
(***************************************************************************)
Request(id, method, params, by) ==
    [id |-> id, method |-> method, params |-> params, by |-> by]

Response(id, result) == [id |-> id, result |-> result, error |-> IsThrown(result)]

\* a defect: a request made while another one is unanswered is held back
jrpcCallQueued(S, method, params, op, d) ==
    LET id == S.jid + 1
    IN  [S EXCEPT !.jid = id,
                  !.waiting = [i \in DOMAIN S.waiting \cup {id} |->
                                  IF i = id THEN [op |-> op, d |-> d, method |-> method]
                                  ELSE S.waiting[i]],
                  !.sent = IF DOMAIN S.waiting = {}
                           THEN Append(@, Request(id, method, params,
                                   IF d > 0 /\ S.describes[d].slot > 0 THEN 0 ELSE op))
                           ELSE @]

\* a defect: the method of the class does nothing
sendMessageSilent(S) == S

\* sendMessage as the class defines it: it throws
\* 'Method "sendMessage" is not implemented'
NotImplemented == Thrown("Method sendMessage is not implemented")

sendMessageOfClass(S) == [S EXCEPT !.sendErrors = @ + 1]

\* WebSocket.send on a socket that is still connecting throws
InvalidStateError == Thrown("InvalidStateError")

\* what sendMessage throws: the method of the class its own error, the
\* function openConnection puts in its place the error of WebSocket.send
sendMessageError(S) ==
    IF S.send = "notImplemented" THEN NotImplemented ELSE InvalidStateError

\* whether the last use of toStream in S2, made from S1, threw
Threw(S1, S2) == S2.sendErrors > S1.sendErrors

\* simple_jsonrpc.call: the next id, the request handed to toStream (which is
\* sendMessage) at once, the caller suspended until the reply with that id.
\* When sendMessage throws, the call fails and nothing is pending.
jrpcCall(S, method, params, op, d) ==
    LET id == S.jid + 1
    IN  IF S.send # "supplied" THEN sendMessageOfClass(S)
        ELSE
        [S EXCEPT !.jid = id,
                  !.waiting = [i \in DOMAIN S.waiting \cup {id} |->
                                  IF i = id THEN [op |-> op, d |-> d, method |-> method]
                                  ELSE S.waiting[i]],
                  !.sent = Append(@, Request(id, method, params,
                              IF d > 0 /\ S.describes[d].slot > 0 THEN 0 ELSE op))]

\* simple_jsonrpc answering an inbound request: the handler's value, where a
\* handler that returns nothing is answered `true`; a rejection is answered
\* with an error whose data is the message of the exception
jrpcResult(r) == IF r = Undefined THEN Bool(TRUE) ELSE r

jrpcRespond(S, id, r) ==
    IF S.send # "supplied" THEN sendMessageOfClass(S)
    ELSE [S EXCEPT !.replies = Append(@, Response(id, jrpcResult(r)))]

(***************************************************************************)
(* Identity registry.                                                      *)
(***************************************************************************)
\* a defect: the test `!this._scriptObjectIdMap.has(object)` is missing
assignScriptObjectIdAlways(S, object) ==
    [S EXCEPT !.last = S.last + 1,
              !.idMap = [x \in DOMAIN S.idMap \cup {object} |->
                            IF x = object THEN S.last + 1 ELSE S.idMap[x]]]

\* _assignScriptObjectId
assignScriptObjectId(S, object) ==
    IF object \in DOMAIN S.idMap THEN S
    ELSE [S EXCEPT !.last = S.last + 1,
                   !.idMap = [x \in DOMAIN S.idMap \cup {object} |->
                                 IF x = object THEN S.last + 1 ELSE S.idMap[x]]]

RECURSIVE assignAll(_, _)
assignAll(S, objects) ==
    IF objects = <<>> THEN S
    ELSE assignAll(assignScriptObjectId(S, Head(objects)), Tail(objects))

RECURSIVE Flatten(_)
Flatten(stack) ==
    IF stack = <<>> THEN <<>> ELSE Head(stack).refs \o Flatten(Tail(stack))

\* _findScriptObject: the first object, frames from the front, with that handle
findScriptObject(S, scriptObjectId) ==
    LET all == Flatten(S.stack)
        hits == {i \in 1..Len(all) :
                    /\ all[i] \in DOMAIN S.idMap
                    /\ S.idMap[all[i]] = scriptObjectId}
    IN  IF hits = {} THEN Undefined ELSE all[Min(hits)]

\* this._scriptObjectListStack.unshift(scriptObjectList)
unshift(stack, frame) == <<frame>> \o stack

\* a defect: the `finally` block pops nothing
shiftNothing(stack) == stack

\* this._scriptObjectListStack.shift()
shift(stack) == Tail(stack)

(***************************************************************************)
(* Value codec.                                                            *)
(***************************************************************************)
\* a defect: `value == null` in place of the two strict tests, so that the
\* absence value goes out as handle 0
serializeLoose(idMap, value) ==
    IF isPlainValueType(value) THEN value
    ELSE IF value \in {Undefined, Null} THEN SO(API_VALUE_INVALID_SCRIPT_OBJECT)
    ELSE IF value \in DOMAIN idMap THEN SO(idMap[value])
    ELSE Thrown("Unexpected value")

\* a defect: a value without a handle goes out as the absence value
serializeLenient(idMap, value) ==
    IF isPlainValueType(value) THEN value
    ELSE IF value = Undefined THEN Empty
    ELSE IF value = Null THEN SO(API_VALUE_INVALID_SCRIPT_OBJECT)
    ELSE IF value \in DOMAIN idMap THEN SO(idMap[value])
    ELSE Empty

\* a defect: `value == undefined` in place of the strict test, so that null
\* goes out as the absence value
serializeNullAsEmpty(idMap, value) ==
    IF isPlainValueType(value) THEN value
    ELSE IF value \in {Undefined, Null} THEN Empty
    ELSE IF value \in DOMAIN idMap THEN SO(idMap[value])
    ELSE Thrown("Unexpected value")

\* _serialize
serialize(idMap, value) ==
    IF isPlainValueType(value) THEN value
    ELSE IF value = Undefined THEN Empty
    ELSE IF value = Null THEN SO(API_VALUE_INVALID_SCRIPT_OBJECT)
    ELSE IF value \in DOMAIN idMap THEN SO(idMap[value])
    ELSE Thrown("Unexpected value")

\* _deserialize up to its first await: the value, or that the handle has to be
\* described, or the exception
NeedsDescribe(h) == Val("describe", h, "")

\* a defect: {type:"empty"} is decoded as null
deserializeEmptyAsNull(value) ==
    IF isPlainValueType(value) THEN value
    ELSE IF value.type = API_VALUE_TYPE_EMPTY THEN Null
    ELSE IF value.type = API_VALUE_TYPE_SCRIPT_OBJECT
         THEN IF value.n = API_VALUE_INVALID_SCRIPT_OBJECT THEN Null
              ELSE NeedsDescribe(value.n)
    ELSE Thrown("Unexpected value")

\* a defect: handle 0 is not told apart from the other handles
deserializeNoInvalid(value) ==
    IF isPlainValueType(value) THEN value
    ELSE IF value.type = API_VALUE_TYPE_EMPTY THEN Undefined
    ELSE IF value.type = API_VALUE_TYPE_SCRIPT_OBJECT THEN NeedsDescribe(value.n)
    ELSE Thrown("Unexpected value")

deserialize(value) ==
    IF isPlainValueType(value) THEN value
    ELSE IF value.type = API_VALUE_TYPE_EMPTY THEN Undefined
    ELSE IF value.type = API_VALUE_TYPE_SCRIPT_OBJECT
         THEN IF value.n = API_VALUE_INVALID_SCRIPT_OBJECT THEN Null
              ELSE NeedsDescribe(value.n)
    ELSE Thrown("Unexpected value")

(***************************************************************************)
(* Tasks.                                                                  *)
(*   kind    initialize | get | set | call                                 *)
(*   pc      await (its own request), decode (awaiting _describeScriptObject)*)
(*           resolved, rejected                                            *)
(*   stage   of initialize: authenticate, getRootObject, registerCallback  *)
(*   idx     of initialize: the entry of globalCallbacksMap being registered*)
(*   parent  of a call made by initialize: that task, else 0               *)
(*   response  `const response = await this._jrpc.call(...)`               *)
(* A run of _handleAPICallback:                                            *)
(*   id      the id of the inbound request                                 *)
(*   target  the handle it names                                           *)
(*   fn      the function found when the request arrived                   *)
(*   slots   its arguments, decoded or still to describe                   *)
(***************************************************************************)
NewOp(kind, target, name, args, parent) ==
    [kind |-> kind, pc |-> "await", stage |-> "", idx |-> 0, target |-> target,
     name |-> name, args |-> args, parent |-> parent, response |-> Undefined,
     result |-> Undefined]

settle(S, o, value) ==
    [S EXCEPT !.ops[o].pc = IF IsThrown(value) THEN "rejected" ELSE "resolved",
              !.ops[o].result = value]

settleCallback(S, c, value) ==
    [S EXCEPT !.callbacks[c].pc = IF IsThrown(value) THEN "rejected" ELSE "resolved",
              !.callbacks[c].result = value]

\* _describeScriptObject up to its first await; the run is awaited by task o,
\* or (slot > 0) by run o of _handleAPICallback for its argument slot
describeScriptObject(S, serializedTarget, o, slot) ==
    LET d == Len(S.describes) + 1
        S1 == [S EXCEPT !.describes = Append(@,
                  [op |-> o, slot |-> slot, target |-> serializedTarget,
                   stage |-> API_SERVER_METHOD_DESCRIBE_VARIABLES,
                   properties |-> <<>>])]
    IN  jrpcCall(S1, API_SERVER_METHOD_DESCRIBE_VARIABLES, <<serializedTarget>>, o, d)

\* Object.defineProperty on a sealed-to-be object: defining a name a second time
\* throws (the first definition is not configurable)
HasDuplicates(names) == \E i, j \in 1..Len(names) : i < j /\ names[i] = names[j]

\* rootObject.registerCallback(...) and the like: calling a member that is not a
\* method of the value throws a TypeError
HasMethod(S, value, name) ==
    /\ value.type = "proxy"
    /\ name \in Range(S.proxies[value.n].methods)

(***************************************************************************)
(* Proxy method call.                                                      *)
(***************************************************************************)
\* _callAPIMethod up to its first await.  A frame carries, next to the list
\* of references, the call that pushed it: the identity of the JavaScript
\* array.
callAPIMethod(S, serializedTarget, methodName, args, parent) ==
    LET scriptObjectList == Filter(args, {a \in Range(args) : InstanceofObject(a)})
        S1 == assignAll(S, scriptObjectList)
        o == Len(S1.ops) + 1
        S2 == [S1 EXCEPT
                  !.stack = unshift(@, [call |-> o, refs |-> scriptObjectList]),
                  !.ops = Append(@, NewOp("call", serializedTarget, methodName,
                                          args, parent))]
        serialized == [i \in 1..Len(args) |-> serialize(S2.idMap, args[i])]
        failed == {i \in 1..Len(args) : IsThrown(serialized[i])}
    IN  IF failed # {}
        THEN settle([S2 EXCEPT !.stack = shift(@)], o, serialized[Min(failed)])
        ELSE jrpcCall(S2, API_SERVER_METHOD_CALL_FUNCTION,
                      <<serializedTarget, Str(methodName)>> \o serialized, o, 0)

\* a defect: the loop takes the entries from the last one to the first
initRegisterReversed(S, o, root, idx) ==
    IF idx > Len(S.globals) THEN settle(S, o, root)
    ELSE IF ~HasMethod(S, root, "registerCallback")
    THEN settle(S, o, Thrown("TypeError"))
    ELSE LET entry == S.globals[Len(S.globals) + 1 - idx]
             S1 == [S EXCEPT !.ops[o].stage = "registerCallback",
                             !.ops[o].idx = idx,
                             !.ops[o].result = root,
                             !.ops[o].pc = "await"]
             S2 == callAPIMethod(S1, SO(S.proxies[root.n].handle), "registerCallback",
                                 <<Str(entry.name), entry.fn>>, o)
             c == Len(S2.ops)
         IN  IF S2.ops[c].pc = "rejected" THEN settle(S2, o, S2.ops[c].result)
             ELSE S2

\* initialize, the loop over Object.entries(this._globalCallbacksMap) from
\* entry idx on
initRegister(S, o, root, idx) ==
    IF idx > Len(S.globals) THEN settle(S, o, root)
    ELSE IF ~HasMethod(S, root, "registerCallback")
    THEN settle(S, o, Thrown("TypeError"))
    ELSE LET S1 == [S EXCEPT !.ops[o].stage = "registerCallback",
                             !.ops[o].idx = idx,
                             !.ops[o].result = root,
                             !.ops[o].pc = "await"]
             S2 == callAPIMethod(S1, SO(S.proxies[root.n].handle), "registerCallback",
                                 <<Str(S.globals[idx].name), S.globals[idx].fn>>, o)
             c == Len(S2.ops)
         IN  IF S2.ops[c].pc = "rejected" THEN settle(S2, o, S2.ops[c].result)
             ELSE S2

\* _callAPIMethod from the reply on: the `finally` block, then the promise
\* settles; a call made by initialize resumes initialize
finishCall(S, o, value) ==
    LET S1 == settle([S EXCEPT !.stack = shift(@)], o, value)
        p == S.ops[o].parent
    IN  IF p = 0 THEN S1
        ELSE IF IsThrown(value) THEN settle(S1, p, value)
        ELSE initRegister(S1, p, S1.ops[p].result, S1.ops[p].idx + 1)

(***************************************************************************)
(* Inbound callback.                                                       *)
(***************************************************************************)
\* a defect: `return callbackFunction.apply(...)`, the function's value is
\* handed back
callbackResultReturned(ret) == ret

\* a defect: a try/catch around the call, the failure of the function is
\* swallowed
callbackResultSwallowing(ret) == Undefined

\* what _handleAPICallback hands back to simple_jsonrpc when the function
\* returned (or resolved to) ret: nothing, the function's value is dropped
callbackResult(ret) == IF IsThrown(ret) THEN ret ELSE Undefined

\* a defect: the function is looked up again when the arguments are decoded
invokeCallbackLate(S, c, ret) ==
    LET cb == S.callbacks[c]
        callbackFunction == findScriptObject(S, cb.target)
        S1 == [S EXCEPT !.invocations =
                  Append(@, [fn |-> callbackFunction, args |-> cb.slots,
                             callback |-> c, ret |-> ret, send |-> S.send])]
    IN  IF ~TypeofFunction(callbackFunction)
        THEN settleCallback(jrpcRespond(S, cb.id, NotFound(cb.target)), c,
                            NotFound(cb.target))
        ELSE settleCallback(jrpcRespond(S1, cb.id, callbackResult(ret)), c,
                            callbackResult(ret))

\* _handleAPICallback from `callbackFunction.apply` on; ret is what the local
\* function returns or throws
invokeCallback(S, c, ret) ==
    LET cb == S.callbacks[c]
        S1 == [S EXCEPT !.invocations =
                  Append(@, [fn |-> cb.fn, args |-> cb.slots, callback |-> c,
                             ret |-> ret, send |-> S.send])]
    IN  settleCallback(jrpcRespond(S1, cb.id, callbackResult(ret)), c,
                       callbackResult(ret))

\* a defect: Promise.race in place of Promise.all, the function is called as
\* soon as the first argument is there
DecodedFirst(slots) == slots = <<>> \/ slots[1].type # "describe"

Decoded(slots) == \A i \in 1..Len(slots) : slots[i].type # "describe"

RECURSIVE describeArgs(_, _, _, _)
describeArgs(S, c, args, i) ==
    IF i > Len(args) THEN S
    ELSE IF deserialize(args[i]).type = "describe"
    THEN describeArgs(describeScriptObject(S, args[i], c, i), c, args, i + 1)
    ELSE describeArgs(S, c, args, i + 1)

\* the handler registered for `callback` and _handleAPICallback up to its
\* first await
handleAPICallback(S, id, functionId, args, ret) ==
    LET c == Len(S.callbacks) + 1
        callbackFunction == findScriptObject(S, functionId)
        slots == [i \in 1..Len(args) |-> deserialize(args[i])]
        failed == {i \in 1..Len(args) : IsThrown(slots[i])}
        S0 == [S EXCEPT !.callbacks = Append(@,
                  [id |-> id, target |-> functionId, args |-> args,
                   fn |-> callbackFunction, slots |-> <<>>, pc |-> "decode",
                   result |-> Undefined])]
    IN  IF ~TypeofFunction(callbackFunction)
        THEN settleCallback(jrpcRespond(S0, id, NotFound(functionId)), c,
                            NotFound(functionId))
        ELSE LET S1 == describeArgs(S0, c, args, 1)
                 S2 == [S1 EXCEPT !.callbacks[c].slots = slots]
             IN  IF failed # {}
                 THEN settleCallback(jrpcRespond(S2, id, slots[Min(failed)]), c,
                                     slots[Min(failed)])
                 ELSE IF Decoded(slots) THEN invokeCallback(S2, c, ret)
                 ELSE S2

(***************************************************************************)
(* Object materializer.                                                    *)
(***************************************************************************)
\* the promise of _describeScriptObject run d settles with value (a proxy or
\* an exception): the task awaiting it resumes
describeSettled(S, d, value, ret) ==
    LET o == S.describes[d].op
        slot == S.describes[d].slot
        S1 == [S EXCEPT !.describes[d].stage =
                  IF IsThrown(value) THEN "failed" ELSE "done"]
    IN  IF slot > 0
        THEN \* Promise.all in _handleAPICallback
             IF S1.callbacks[o].pc # "decode" THEN S1
             ELSE IF IsThrown(value)
             THEN settleCallback(jrpcRespond(S1, S1.callbacks[o].id, value), o, value)
             ELSE LET S2 == [S1 EXCEPT !.callbacks[o].slots[slot] = value]
                  IN  IF Decoded(S2.callbacks[o].slots) THEN invokeCallback(S2, o, ret)
                      ELSE S2
        ELSE IF S1.ops[o].kind = "initialize"
        THEN IF IsThrown(value) THEN settle(S1, o, value)
             ELSE initRegister(S1, o, value, 1)
        ELSE IF S1.ops[o].kind = "get" THEN settle(S1, o, value)
        ELSE finishCall(S1, o, value)

\* a defect: the rejection of the listProperties call is swallowed and the
\* object is described with no properties
describePropertiesIgnoringError(S, d, reply, ret) ==
    jrpcCall([S EXCEPT !.describes[d].stage = API_SERVER_METHOD_DESCRIBE_FUNCTIONS,
                       !.describes[d].properties = reply.names],
             API_SERVER_METHOD_DESCRIBE_FUNCTIONS, <<S.describes[d].target>>,
             S.describes[d].op, d)

\* _describeScriptObject after the listProperties reply
describeProperties(S, d, reply, ret) ==
    IF reply.error THEN describeSettled(S, d, Thrown("rpc error"), ret)
    ELSE jrpcCall([S EXCEPT !.describes[d].stage = API_SERVER_METHOD_DESCRIBE_FUNCTIONS,
                            !.describes[d].properties = reply.names],
                  API_SERVER_METHOD_DESCRIBE_FUNCTIONS, <<S.describes[d].target>>,
                  S.describes[d].op, d)

\* a defect: the object is registered with _assignScriptObjectId, under a
\* handle of this side, in place of the handle it was described for
describeMethodsLocalHandle(S, d, reply, ret) ==
    LET p == Len(S.proxies) + 1
        target == S.describes[d].target
        properties == S.describes[d].properties
    IN  IF reply.error THEN describeSettled(S, d, Thrown("rpc error"), ret)
        ELSE IF HasDuplicates(properties \o reply.names)
        THEN describeSettled(S, d, Thrown("TypeError"), ret)
        ELSE describeSettled(
                 assignScriptObjectId(
                     [S EXCEPT !.proxies = Append(@, [handle |-> target.n,
                                                      properties |-> properties,
                                                      methods |-> reply.names])],
                     Proxy(p)),
                 d, Proxy(p), ret)

\* a defect: the proxies are kept by handle, and a later description of a
\* handle redefines the members of the proxies already built for it
describeMethodsRefreshing(S, d, reply, ret) ==
    LET p == Len(S.proxies) + 1
        target == S.describes[d].target
        properties == S.describes[d].properties
        refreshed == [i \in 1..Len(S.proxies) |->
                        IF S.proxies[i].handle = target.n
                        THEN [S.proxies[i] EXCEPT !.properties = properties,
                                                  !.methods = reply.names]
                        ELSE S.proxies[i]]
    IN  IF reply.error THEN describeSettled(S, d, Thrown("rpc error"), ret)
        ELSE IF HasDuplicates(properties \o reply.names)
        THEN describeSettled(S, d, Thrown("TypeError"), ret)
        ELSE describeSettled(
                 [S EXCEPT !.proxies = Append(refreshed, [handle |-> target.n,
                                                          properties |-> properties,
                                                          methods |-> reply.names]),
                           !.idMap = [x \in DOMAIN S.idMap \cup {Proxy(p)} |->
                                         IF x = Proxy(p) THEN target.n
                                         ELSE S.idMap[x]]],
                 d, Proxy(p), ret)

\* a defect: the members are defined configurable, a name defined twice keeps
\* its last definition and the object is delivered
describeMethodsRedefining(S, d, reply, ret) ==
    LET p == Len(S.proxies) + 1
        target == S.describes[d].target
        properties == S.describes[d].properties
    IN  IF reply.error THEN describeSettled(S, d, Thrown("rpc error"), ret)
        ELSE describeSettled(
                 [S EXCEPT !.proxies = Append(@, [handle |-> target.n,
                                                  properties |-> properties,
                                                  methods |-> reply.names]),
                           !.idMap = [x \in DOMAIN S.idMap \cup {Proxy(p)} |->
                                         IF x = Proxy(p) THEN target.n
                                         ELSE S.idMap[x]]],
                 d, Proxy(p), ret)

\* _describeScriptObject after the listMethods reply: the object is entered in
\* _scriptObjectIdMap under the remote handle, its members are defined, it is
\* sealed
describeMethods(S, d, reply, ret) ==
    LET p == Len(S.proxies) + 1
        target == S.describes[d].target
        properties == S.describes[d].properties
    IN  IF reply.error THEN describeSettled(S, d, Thrown("rpc error"), ret)
        ELSE IF HasDuplicates(properties \o reply.names)
        THEN describeSettled(S, d, Thrown("TypeError"), ret)
        ELSE describeSettled(
                 [S EXCEPT !.proxies = Append(@, [handle |-> target.n,
                                                  properties |-> properties,
                                                  methods |-> reply.names]),
                           !.idMap = [x \in DOMAIN S.idMap \cup {Proxy(p)} |->
                                         IF x = Proxy(p) THEN target.n
                                         ELSE S.idMap[x]]],
                 d, Proxy(p), ret)

\* a defect: the proxies are cached by handle, and a handle that has a proxy
\* is decoded to that proxy without being described again
decodeResponseCached(S0, o, response) ==
    LET v == deserialize(response)
        S == [S0 EXCEPT !.ops[o].response = response]
        op == S.ops[o]
        known == {i \in 1..Len(S.proxies) : S.proxies[i].handle = v.n}
    IN  IF v.type = "describe" /\ known # {}
        THEN IF op.kind = "call" THEN finishCall(S, o, Proxy(Min(known)))
             ELSE IF op.kind = "initialize" THEN initRegister(S, o, Proxy(Min(known)), 1)
             ELSE settle(S, o, Proxy(Min(known)))
        ELSE IF v.type = "describe"
        THEN describeScriptObject([S EXCEPT !.ops[o].pc = "decode"], response, o, 0)
        ELSE IF op.kind = "call" THEN finishCall(S, o, v)
        ELSE IF op.kind = "initialize" /\ ~IsThrown(v) THEN initRegister(S, o, v, 1)
        ELSE settle(S, o, v)

\* the continuation of `await this._deserialize(response)` in initialize,
\* the getter and _callAPIMethod
decodeResponse(S0, o, response) ==
    LET v == deserialize(response)
        S == [S0 EXCEPT !.ops[o].response = response]
        op == S.ops[o]
    IN  IF v.type = "describe"
        THEN describeScriptObject([S EXCEPT !.ops[o].pc = "decode"], response, o, 0)
        ELSE IF op.kind = "call" THEN finishCall(S, o, v)
        ELSE IF op.kind = "initialize" /\ ~IsThrown(v) THEN initRegister(S, o, v, 1)
        ELSE settle(S, o, v)

(***************************************************************************)
(* The operations of the caller, up to their first await.                  *)
(***************************************************************************)
\* initialize up to its first await
initialize(S, token) ==
    LET o == Len(S.ops) + 1
        S1 == [S EXCEPT !.ops = Append(@,
                  [NewOp("initialize", Undefined, "", <<token>>, 0) EXCEPT
                      !.stage = API_SERVER_METHOD_AUTHENTICATE])]
        S2 == jrpcCall(S1, API_SERVER_METHOD_AUTHENTICATE, <<token>>, o, 0)
    IN  IF Threw(S1, S2) THEN settle(S2, o, sendMessageError(S1)) ELSE S2

\* the function made by _createGetter
getter(S, serializedTarget, propertyName) ==
    LET o == Len(S.ops) + 1
        S1 == [S EXCEPT !.ops = Append(@,
                  NewOp("get", serializedTarget, propertyName, <<>>, 0))]
    IN  jrpcCall(S1, API_SERVER_METHOD_GET_VALUE,
                 <<serializedTarget, Str(propertyName)>>, o, 0)

\* a defect: the setter registers the value it is given, as a method call
\* registers its arguments
setterAssigning(S, serializedTarget, propertyName, value) ==
    LET S0 == IF InstanceofObject(value) THEN assignScriptObjectId(S, value) ELSE S
        o == Len(S0.ops) + 1
        S1 == [S0 EXCEPT !.ops = Append(@,
                  NewOp("set", serializedTarget, propertyName, <<value>>, 0))]
        serialized == serialize(S0.idMap, value)
    IN  IF IsThrown(serialized) THEN settle(S1, o, serialized)
        ELSE jrpcCall(S1, API_SERVER_METHOD_SET_VALUE,
                      <<serializedTarget, Str(propertyName), serialized>>, o, 0)

\* the function made by _createSetter
setter(S, serializedTarget, propertyName, value) ==
    LET o == Len(S.ops) + 1
        S1 == [S EXCEPT !.ops = Append(@,
                  NewOp("set", serializedTarget, propertyName, <<value>>, 0))]
        serialized == serialize(S.idMap, value)
    IN  IF IsThrown(serialized) THEN settle(S1, o, serialized)
        ELSE jrpcCall(S1, API_SERVER_METHOD_SET_VALUE,
                      <<serializedTarget, Str(propertyName), serialized>>, o, 0)

(***************************************************************************)
(* The continuations run by a reply.                                       *)
(***************************************************************************)
\* what the peer puts in a reply: an error, a value, or a list of names
RpcError == [error |-> TRUE, result |-> Undefined, names |-> <<>>]
Result(v) == [error |-> FALSE, result |-> v, names |-> <<>>]
Names(l) == [error |-> FALSE, result |-> Undefined, names |-> l]

\* the inbound messages: nothing yet (or a call by the local caller), the
\* reply to request id, a `callback` request
NoMessage ==
    [id |-> 0, method |-> "", params |-> <<>>, error |-> FALSE,
     result |-> Undefined, names |-> <<>>]
ReplyMessage(id, reply) ==
    [id |-> id, method |-> "", params |-> <<>>, error |-> reply.error,
     result |-> reply.result, names |-> reply.names]
CallbackMessage(id, h, args) ==
    [id |-> id, method |-> API_CLIENT_METHOD_CALLBACK, params |-> <<SO(h)>> \o args,
     error |-> FALSE, result |-> Undefined, names |-> <<>>]

\* simple_jsonrpc: the reply with this id is taken off the pending requests
Took(S, id) ==
    [S EXCEPT !.waiting = [i \in DOMAIN S.waiting \ {id} |-> S.waiting[i]]]

\* a defect: the rejection of the authenticate call is swallowed
initAuthenticatedIgnoringError(S, o, reply) ==
    jrpcCall([S EXCEPT !.ops[o].stage = API_SERVER_METHOD_GET_ROOT_OBJECT],
             API_SERVER_METHOD_GET_ROOT_OBJECT, <<>>, o, 0)

\* a defect: initialize goes on only when the peer answers `true`
initAuthenticatedChecking(S, o, reply) ==
    IF reply.error \/ reply.result # Bool(TRUE) THEN settle(S, o, Thrown("rpc error"))
    ELSE jrpcCall([S EXCEPT !.ops[o].stage = API_SERVER_METHOD_GET_ROOT_OBJECT],
                  API_SERVER_METHOD_GET_ROOT_OBJECT, <<>>, o, 0)

\* initialize after `await this._jrpc.call(API_SERVER_METHOD_AUTHENTICATE, ...)`
initAuthenticated(S, o, reply) ==
    IF reply.error THEN settle(S, o, Thrown("rpc error"))
    ELSE jrpcCall([S EXCEPT !.ops[o].stage = API_SERVER_METHOD_GET_ROOT_OBJECT],
                  API_SERVER_METHOD_GET_ROOT_OBJECT, <<>>, o, 0)

\* initialize after the getRootObject reply, the getter after the get reply
valueReplied(S, o, reply) ==
    IF reply.error THEN settle(S, o, Thrown("rpc error"))
    ELSE decodeResponse(S, o, reply.result)

\* a defect: the setter decodes the reply as the getter does
setRepliedDecoding(S, o, reply) == valueReplied(S, o, reply)

\* the setter after the set reply: the reply is not looked at
setReplied(S, o, reply) ==
    IF reply.error THEN settle(S, o, Thrown("rpc error"))
    ELSE settle(S, o, Undefined)

\* a defect: a call answered with an error sends its request again
executeRepliedRetrying(S, o, reply) ==
    IF reply.error
    THEN jrpcCall(S, API_SERVER_METHOD_CALL_FUNCTION,
                  <<S.ops[o].target, Str(S.ops[o].name)>>
                      \o [i \in 1..Len(S.ops[o].args) |->
                             serialize(S.idMap, S.ops[o].args[i])], o, 0)
    ELSE decodeResponse(S, o, reply.result)

\* _callAPIMethod after the execute reply
executeReplied(S, o, reply) ==
    IF reply.error THEN finishCall(S, o, Thrown("rpc error"))
    ELSE decodeResponse(S, o, reply.result)

(***************************************************************************)
(* The inputs: what the caller passes and what the peer sends.             *)
(***************************************************************************)
\* the references of the caller: two functions given as global callbacks, two
\* more functions and a plain object
GlobalFn1 == Fn(1)
GlobalFn2 == Fn(2)
LocalFn1 == Fn(3)
LocalFn2 == Fn(4)
LocalObj == Obj(5)
\* a BigInt: no boolean, number or string, not undefined, not null and no
\* instance of Object
LocalBigInt == Val("bigint", 0, "")

\* new RPCManager({}), new RPCManager({a: fn1, b: fn2}), new RPCManager({a: fn1, b: fn1})
GlobalCallbackConfigs ==
    { <<>>,
      <<[name |-> "a", fn |-> GlobalFn1], [name |-> "b", fn |-> GlobalFn2]>>,
      <<[name |-> "a", fn |-> GlobalFn1], [name |-> "b", fn |-> GlobalFn1]>> }

\* the handles the peer gives to its objects: one that is also a handle this
\* side assigns, one that is not
PeerHandles == {1, 123}

AuthReplies == {Result(Bool(TRUE)), Result(Bool(FALSE)), RpcError}
RootReplies ==
    {Result(SO(h)) : h \in PeerHandles}
        \cup {Result(SO(API_VALUE_INVALID_SCRIPT_OBJECT)), RpcError}
GetReplies ==
    {Result(Num(42)), Result(Empty), Result(SO(API_VALUE_INVALID_SCRIPT_OBJECT)),
     Result(SO(123)), RpcError}
SetReplies == {Result(Bool(TRUE)), Result(SO(123)), RpcError}
ExecuteReplies == {Result(Num(42)), Result(Other), RpcError}
PropertiesReplies == {Names(<<"n">>), RpcError}
MethodsReplies ==
    {Names(<<"registerCallback">>), Names(<<>>), Names(<<"n">>), RpcError}

\* what a local function called by the peer returns or throws
FnOutcomes == {Undefined, Num(7), Thrown("callback failed")}

\* the proxies the caller holds: results of its operations and arguments its
\* functions were called with
UserProxies ==
    {i \in 1..Len(proxies) :
        \/ \E o \in 1..Len(ops) : /\ ops[o].pc = "resolved"
                                  /\ ops[o].parent = 0
                                  /\ ops[o].result = Proxy(i)
        \/ \E k \in 1..Len(invocations) : Proxy(i) \in Range(invocations[k].args)}

SetValues ==
    {Num(42), Undefined, Null, LocalFn1} \cup {Proxy(i) : i \in UserProxies}
ArgLists ==
    {<<LocalFn1>>, <<LocalFn2, LocalFn1, LocalFn2>>,
     <<Num(42), Undefined, Null, LocalObj, LocalFn1>>,
     <<LocalFn1, LocalBigInt>>}
        \cup {<<Proxy(i)>> : i \in UserProxies}
CallbackArgLists == {<<Num(42), Empty, SO(API_VALUE_INVALID_SCRIPT_OBJECT)>>, <<Other>>}
CallbackIdBase == 1000

UserOps == {o \in 1..Len(ops) : ops[o].kind \in {"get", "set", "call"} /\ ops[o].parent = 0}
Pending(method) == {id \in DOMAIN waiting : waiting[id].method = method}

(***************************************************************************)
(* Init: the state after `new RPCManager(globalCallbacksMap)`.             *)
(***************************************************************************)
\* Object.values(globalCallbacksMap)
ObjectValues(map) == [i \in 1..Len(map) |-> map[i].fn]

\* new ConnectionManager(rpcManager, options): no socket (0), no onClose
ConnectionManagerConstructor == [socket |-> 0, onClose |-> "undefined", onCloseCalls |-> 0]

constructor(map) ==
    LET S0 == [last |-> API_VALUE_INVALID_SCRIPT_OBJECT, idMap |-> [x \in {} |-> 0],
               globals |-> map, stack |-> <<>>, jid |-> 0,
               waiting |-> [i \in {} |-> 0], sent |-> <<>>, replies |-> <<>>,
               ops |-> <<>>, callbacks |-> <<>>, describes |-> <<>>, proxies |-> <<>>, invocations |-> <<>>,
               send |-> "notImplemented", sendErrors |-> 0]
        S1 == assignAll(S0, ObjectValues(map))
    IN  [S1 EXCEPT !.stack = <<[call |-> 0, refs |-> ObjectValues(map)]>>]

Init == \E map \in GlobalCallbackConfigs : 
    LET S == constructor(map)
    IN  /\ lastScriptObjectId = S.last
        /\ scriptObjectIdMap = S.idMap
        /\ globalCallbacksMap = S.globals
        /\ scriptObjectListStack = S.stack
        /\ jrpcId = S.jid
        /\ waiting = S.waiting
        /\ sent = S.sent
        /\ replies = S.replies
        /\ ops = S.ops
        /\ callbacks = S.callbacks
        /\ describes = S.describes
        /\ proxies = S.proxies
        /\ invocations = S.invocations
        /\ inbound = NoMessage
        /\ sendMessage = S.send
        /\ sendErrors = S.sendErrors
        /\ connectionManager = ConnectionManagerConstructor
        /\ sockets = <<>>
        /\ processed = <<>>

(***************************************************************************)
(* Actions.                                                                *)
(***************************************************************************)
\* the transport: rpcManager.sendMessage = (message) => { ... }
SupplySendMessage ==
    /\ sendMessage # "supplied"
    /\ Becomes([State EXCEPT !.send = "supplied"], NoMessage)

\* the caller: rpcManager.initialize(token), once
Initialize ==
    /\ \A o \in 1..Len(ops) : ops[o].kind # "initialize"
    /\ Becomes(initialize(State, Str("token")), NoMessage)

\* the caller reads property p of a proxy
Get ==
    /\ Cardinality(UserOps) < MaxUserOps
    /\ \E i \in UserProxies : \E k \in 1..Len(proxies[i].properties) :
          Becomes(getter(State, SO(proxies[i].handle), proxies[i].properties[k]),
                  NoMessage)

\* the caller assigns to property p of a proxy
Set ==
    /\ Cardinality(UserOps) < MaxUserOps
    /\ \E i \in UserProxies : \E k \in 1..Len(proxies[i].properties) :
          \E v \in SetValues :
              Becomes(setter(State, SO(proxies[i].handle), proxies[i].properties[k], v),
                      NoMessage)

\* the caller invokes method m of a proxy
Call ==
    /\ Cardinality(UserOps) < MaxUserOps
    /\ \E i \in UserProxies : \E k \in 1..Len(proxies[i].methods) :
          \E args \in ArgLists :
              Becomes(callAPIMethod(State, SO(proxies[i].handle),
                                    proxies[i].methods[k], args, 0), NoMessage)

\* the peer sends a `callback` request
Callback ==
    /\ Len(callbacks) < MaxCallbacks
    /\ \E h \in (1..lastScriptObjectId) \cup PeerHandles :
          \E args \in CallbackArgLists : \E ret \in FnOutcomes :
              Becomes(handleAPICallback(State, CallbackIdBase + Len(callbacks),
                                        h, args, ret),
                      CallbackMessage(CallbackIdBase + Len(callbacks), h, args))

\* the peer answers a pending request
AuthenticateReply ==
    \E id \in Pending(API_SERVER_METHOD_AUTHENTICATE) : \E reply \in AuthReplies :
        Becomes(initAuthenticated(Took(State, id), waiting[id].op, reply),
                ReplyMessage(id, reply))

GetRootObjectReply ==
    \E id \in Pending(API_SERVER_METHOD_GET_ROOT_OBJECT) : \E reply \in RootReplies :
        Becomes(valueReplied(Took(State, id), waiting[id].op, reply),
                ReplyMessage(id, reply))

GetReply ==
    \E id \in Pending(API_SERVER_METHOD_GET_VALUE) : \E reply \in GetReplies :
        Becomes(valueReplied(Took(State, id), waiting[id].op, reply),
                ReplyMessage(id, reply))

SetReply ==
    \E id \in Pending(API_SERVER_METHOD_SET_VALUE) : \E reply \in SetReplies :
        Becomes(setReplied(Took(State, id), waiting[id].op, reply),
                ReplyMessage(id, reply))

ExecuteReply ==
    \E id \in Pending(API_SERVER_METHOD_CALL_FUNCTION) : \E reply \in ExecuteReplies :
        Becomes(executeReplied(Took(State, id), waiting[id].op, reply),
                ReplyMessage(id, reply))

ListPropertiesReply ==
    \E id \in Pending(API_SERVER_METHOD_DESCRIBE_VARIABLES) :
        \E reply \in PropertiesReplies : \E ret \in FnOutcomes :
            Becomes(describeProperties(Took(State, id), waiting[id].d, reply, ret),
                    ReplyMessage(id, reply))

ListMethodsReply ==
    \E id \in Pending(API_SERVER_METHOD_DESCRIBE_FUNCTIONS) :
        \E reply \in MethodsReplies : \E ret \in FnOutcomes :
            Becomes(describeMethods(Took(State, id), waiting[id].d, reply, ret),
                    ReplyMessage(id, reply))

Next ==
    \/ SupplySendMessage
    \/ Initialize
    \/ Get
    \/ Set
    \/ Call
    \/ Callback
    \/ AuthenticateReply
    \/ GetRootObjectReply
    \/ GetReply
    \/ SetReply
    \/ ExecuteReply
    \/ ListPropertiesReply
    \/ ListMethodsReply

Spec == Init /\ [][Next]_vars

(***************************************************************************)
(* The value codec on its own: _serialize and _deserialize applied to      *)
(* values of the caller under the registries that registrations produce.   *)
(***************************************************************************)
MaxCodecOps == 2       \* applications of the codec

CodecValues ==
    {Bool(TRUE), Bool(FALSE), Num(0), Num(42), Str(""), Str("Hello"),
     Str(API_VALUE_TYPE_EMPTY), Undefined, Null, LocalFn1, LocalObj}

\* this._deserialize(this._serialize(value)), where the value serialized is
\* no handle to describe
roundTrip(S, value) ==
    LET serialized == serialize(S.idMap, value)
        back == IF IsThrown(serialized) THEN serialized ELSE deserialize(serialized)
    IN  [S EXCEPT !.ops = Append(@,
            [NewOp("codec", Undefined, "", <<value>>, 0) EXCEPT
                !.response = serialized,
                !.result = back,
                !.pc = IF IsThrown(back) THEN "rejected"
                       ELSE IF back.type = "describe" THEN "decode"
                       ELSE "resolved"])]

RoundTrip ==
    /\ Len(ops) < MaxCodecOps
    /\ \E v \in CodecValues : Becomes(roundTrip(State, v), NoMessage)

\* this._assignScriptObjectId(object)
Register ==
    \E r \in {LocalFn1, LocalObj} \ DOMAIN scriptObjectIdMap :
        Becomes(assignScriptObjectId(State, r), NoMessage)

CodecNext ==
    \/ RoundTrip
    \/ Register

CodecSpec == Init /\ [][CodecNext]_vars

(***************************************************************************)
(* Handles in the results of method calls and in the arguments of          *)
(* callbacks.  The same manager, after `new RPCManager({})`, driven by a   *)
(* caller that makes method calls only and a peer whose root object has    *)
(* handle 123: in ResultSpec the peer answers execute requests with a      *)
(* handle to describe, in ArgumentSpec it sends callbacks whose arguments  *)
(* are handles to describe.                                                *)
(***************************************************************************)
MaxResultCalls == 2        \* method calls by the caller in ResultSpec
MaxArgumentCalls == 2      \* method calls by the caller in ArgumentSpec

DecodeRootReplies == {Result(SO(123))}
DecodeMethodsReplies == {Names(<<"registerCallback">>), RpcError}
ResultExecuteReplies == {Result(SO(123)), RpcError}
ArgumentCallbackArgLists ==
    {<<SO(123)>>, <<SO(123), SO(124)>>, <<Num(42), SO(123), Empty>>, <<SO(123), Other>>}

\* new RPCManager({})
DecodeInit ==
    LET S == constructor(<<>>)
    IN  /\ lastScriptObjectId = S.last
        /\ scriptObjectIdMap = S.idMap
        /\ globalCallbacksMap = S.globals
        /\ scriptObjectListStack = S.stack
        /\ jrpcId = S.jid
        /\ waiting = S.waiting
        /\ sent = S.sent
        /\ replies = S.replies
        /\ ops = S.ops
        /\ callbacks = S.callbacks
        /\ describes = S.describes
        /\ proxies = S.proxies
        /\ invocations = S.invocations
        /\ inbound = NoMessage
        /\ sendMessage = S.send
        /\ sendErrors = S.sendErrors
        /\ connectionManager = ConnectionManagerConstructor
        /\ sockets = <<>>
        /\ processed = <<>>

\* the proxy initialize has resolved with
RootProxies ==
    {i \in 1..Len(proxies) :
        \E o \in 1..Len(ops) : /\ ops[o].kind = "initialize"
                                /\ ops[o].pc = "resolved"
                                /\ ops[o].result = Proxy(i)}

\* the caller invokes a method of the root object with a function, another
\* function in every call
ResultCall ==
    /\ Cardinality(UserOps) < MaxResultCalls
    /\ \E i \in RootProxies : \E k \in 1..Len(proxies[i].methods) :
          Becomes(callAPIMethod(State, SO(proxies[i].handle), proxies[i].methods[k],
                                IF UserOps = {} THEN <<LocalFn1>> ELSE <<LocalFn2>>, 0),
                  NoMessage)

ArgumentCall ==
    /\ Cardinality(UserOps) < MaxArgumentCalls
    /\ \E i \in RootProxies : \E k \in 1..Len(proxies[i].methods) :
          Becomes(callAPIMethod(State, SO(proxies[i].handle), proxies[i].methods[k],
                                IF UserOps = {} THEN <<LocalFn1>> ELSE <<LocalFn2>>, 0),
                  NoMessage)

\* the peer answers getRootObject
DecodeGetRootObjectReply ==
    \E id \in Pending(API_SERVER_METHOD_GET_ROOT_OBJECT) :
        \E reply \in DecodeRootReplies :
            Becomes(valueReplied(Took(State, id), waiting[id].op, reply),
                    ReplyMessage(id, reply))

\* the peer answers listMethods
DecodeListMethodsReply ==
    \E id \in Pending(API_SERVER_METHOD_DESCRIBE_FUNCTIONS) :
        \E reply \in DecodeMethodsReplies : \E ret \in FnOutcomes :
            Becomes(describeMethods(Took(State, id), waiting[id].d, reply, ret),
                    ReplyMessage(id, reply))

\* the peer answers an execute request, with a handle or an error
ResultExecuteReply ==
    \E id \in Pending(API_SERVER_METHOD_CALL_FUNCTION) :
        \E reply \in ResultExecuteReplies :
            Becomes(executeReplied(Took(State, id), waiting[id].op, reply),
                    ReplyMessage(id, reply))

\* the peer sends a `callback` request whose arguments are handles
ArgumentCallback ==
    /\ Len(callbacks) < MaxCallbacks
    /\ \E h \in (1..lastScriptObjectId) \cup PeerHandles :
          \E args \in ArgumentCallbackArgLists : \E ret \in FnOutcomes :
              Becomes(handleAPICallback(State, CallbackIdBase + Len(callbacks),
                                        h, args, ret),
                      CallbackMessage(CallbackIdBase + Len(callbacks), h, args))

ResultNext ==
    \/ SupplySendMessage
    \/ Initialize
    \/ ResultCall
    \/ Callback
    \/ AuthenticateReply
    \/ DecodeGetRootObjectReply
    \/ ResultExecuteReply
    \/ ListPropertiesReply
    \/ DecodeListMethodsReply

ResultSpec == DecodeInit /\ [][ResultNext]_vars

ArgumentNext ==
    \/ SupplySendMessage
    \/ Initialize
    \/ ArgumentCall
    \/ ArgumentCallback
    \/ AuthenticateReply
    \/ DecodeGetRootObjectReply
    \/ ExecuteReply
    \/ ListPropertiesReply
    \/ DecodeListMethodsReply

ArgumentSpec == DecodeInit /\ [][ArgumentNext]_vars

(***************************************************************************)
(* A third specification: one global callback, which the peer may call     *)
(* with a handle while initialize is registering it, and whose function    *)
(* may call a method of the proxy it receives.                             *)
(***************************************************************************)
MaxRegistrationCalls == 1

RegistrationCallbackArgLists == {<<SO(123)>>, <<Num(42)>>}

\* new RPCManager({a: fn1})
RegistrationInit ==
    LET S == constructor(<<[name |-> "a", fn |-> GlobalFn1]>>)
    IN  /\ lastScriptObjectId = S.last
        /\ scriptObjectIdMap = S.idMap
        /\ globalCallbacksMap = S.globals
        /\ scriptObjectListStack = S.stack
        /\ jrpcId = S.jid
        /\ waiting = S.waiting
        /\ sent = S.sent
        /\ replies = S.replies
        /\ ops = S.ops
        /\ callbacks = S.callbacks
        /\ describes = S.describes
        /\ proxies = S.proxies
        /\ invocations = S.invocations
        /\ inbound = NoMessage
        /\ sendMessage = S.send
        /\ sendErrors = S.sendErrors
        /\ connectionManager = ConnectionManagerConstructor
        /\ sockets = <<>>
        /\ processed = <<>>

\* the caller (its global callback, or code it started) invokes a method of a
\* proxy it holds, with a function
RegistrationCall ==
    /\ Cardinality(UserOps) < MaxRegistrationCalls
    /\ \E i \in UserProxies : \E k \in 1..Len(proxies[i].methods) :
          Becomes(callAPIMethod(State, SO(proxies[i].handle), proxies[i].methods[k],
                                <<LocalFn1>>, 0),
                  NoMessage)

\* the peer sends a `callback` request with a handle or a number
RegistrationCallback ==
    /\ Len(callbacks) < MaxCallbacks
    /\ \E h \in (1..lastScriptObjectId) \cup PeerHandles :
          \E args \in RegistrationCallbackArgLists : \E ret \in FnOutcomes :
              Becomes(handleAPICallback(State, CallbackIdBase + Len(callbacks),
                                        h, args, ret),
                      CallbackMessage(CallbackIdBase + Len(callbacks), h, args))

RegistrationNext ==
    \/ SupplySendMessage
    \/ Initialize
    \/ RegistrationCall
    \/ RegistrationCallback
    \/ AuthenticateReply
    \/ DecodeGetRootObjectReply
    \/ ExecuteReply
    \/ ListPropertiesReply
    \/ DecodeListMethodsReply

RegistrationSpec == RegistrationInit /\ [][RegistrationNext]_vars

(***************************************************************************)
(* A fourth specification: the peer describes objects with member names    *)
(* that occur twice, for the root object, for the value of a property and  *)
(* for the argument of a callback.                                         *)
(***************************************************************************)
MaxMemberReads == 1

MemberGetReplies == {Result(SO(123))}
MemberPropertiesReplies == {Names(<<"n">>), Names(<<"n", "n">>)}
MemberMethodsReplies ==
    {Names(<<"registerCallback">>), Names(<<"n">>), Names(<<"f", "f">>)}

\* the peer answers listProperties
MemberListPropertiesReply ==
    \E id \in Pending(API_SERVER_METHOD_DESCRIBE_VARIABLES) :
        \E reply \in MemberPropertiesReplies : \E ret \in FnOutcomes :
            Becomes(describeProperties(Took(State, id), waiting[id].d, reply, ret),
                    ReplyMessage(id, reply))

\* the peer answers listMethods
MemberListMethodsReply ==
    \E id \in Pending(API_SERVER_METHOD_DESCRIBE_FUNCTIONS) :
        \E reply \in MemberMethodsReplies : \E ret \in FnOutcomes :
            Becomes(describeMethods(Took(State, id), waiting[id].d, reply, ret),
                    ReplyMessage(id, reply))

\* the caller reads a property of the root object
MemberGet ==
    /\ Cardinality(UserOps) < MaxMemberReads
    /\ \E i \in RootProxies : \E k \in 1..Len(proxies[i].properties) :
          Becomes(getter(State, SO(proxies[i].handle), proxies[i].properties[k]),
                  NoMessage)

\* the peer answers get with a handle
MemberGetReply ==
    \E id \in Pending(API_SERVER_METHOD_GET_VALUE) : \E reply \in MemberGetReplies :
        Becomes(valueReplied(Took(State, id), waiting[id].op, reply),
                ReplyMessage(id, reply))

MemberNext ==
    \/ SupplySendMessage
    \/ Initialize
    \/ MemberGet
    \/ RegistrationCallback
    \/ AuthenticateReply
    \/ DecodeGetRootObjectReply
    \/ MemberGetReply
    \/ ExecuteReply
    \/ MemberListPropertiesReply
    \/ MemberListMethodsReply

MemberSpec == RegistrationInit /\ [][MemberNext]_vars

(***************************************************************************)
(* ConnectionManager.  A fifth specification: the manager of                *)
(* `new RPCManager({})` wired to WebSockets by openConnection.  A socket is *)
(* a record: readyState; whether its open and its error event have been    *)
(* dispatched; the promise openConnection returned for it; the messages     *)
(* passed to its send, and how many of these calls threw; how many message  *)
(* events it has dispatched.                                                *)
(***************************************************************************)
MaxConnections == 2         \* calls of openConnection
MaxSocketCallbacks == 2     \* `callback` requests the peer sends

\* new WebSocket(url, 'text') and the promise openConnection returns
NewWebSocket ==
    [readyState |-> "connecting", opened |-> FALSE, failed |-> FALSE,
     promise |-> "pending", sends |-> <<>>, refused |-> 0, messages |-> 0]

\* a defect: the function given as sendMessage keeps the socket of the first
\* call of openConnection
socketOfSendFirst(cm) == IF cm.socket = 0 THEN 0 ELSE 1

\* the socket `this._socket!.send(message)` sends on
socketOfSend(cm) == cm.socket

\* what sendMessage does in the present state: the method of the class,
\* a send that throws (the socket is connecting), a send that returns
Transport ==
    IF sendMessage # "supplied" THEN sendMessage
    ELSE IF sockets[socketOfSend(connectionManager)].readyState = "connecting"
    THEN "invalidState"
    ELSE "supplied"

\* the state of the RPCManager as its operations find it
ConnectedState == [State EXCEPT !.send = Transport]

\* the messages the step that leads to S hands to sendMessage and the socket
\* takes
NewlySent(S) ==
    SubSeq(S.sent, Len(sent) + 1, Len(S.sent))
        \o SubSeq(S.replies, Len(replies) + 1, Len(S.replies))

\* the sockets after the sends of the step that leads to S
sendMessageOfConnection(socks, S) ==
    LET s == socketOfSend(connectionManager)
    IN  IF sendMessage # "supplied" THEN socks
        ELSE [socks EXCEPT ![s].sends = @ \o NewlySent(S),
                           ![s].refused = @ + (S.sendErrors - sendErrors)]

\* a defect: a message event of a socket that is no longer this._socket is
\* dropped
onmessageOfCurrent(log, s) ==
    IF s = connectionManager.socket
    THEN Append(log, [socket |-> s, event |-> sockets[s].messages + 1])
    ELSE log

\* this._socket.onmessage: processMessage(event.data)
onmessage(log, s) == Append(log, [socket |-> s, event |-> sockets[s].messages + 1])

\* a defect: onerror rejects and then resolves a promise of its own, which
\* replaces the promise returned
onerrorOverriding(socket) == [socket EXCEPT !.failed = TRUE, !.promise = "rejected"]

\* this._socket.onerror = reject: a promise that is settled stays as it is
onerror(socket) ==
    [socket EXCEPT !.failed = TRUE,
                   !.promise = IF @ = "pending" THEN "rejected" ELSE @]

\* this._socket.onopen = () => resolve()
onopen(socket) ==
    [socket EXCEPT !.opened = TRUE,
                   !.promise = IF @ = "pending" THEN "resolved" ELSE @]

\* this._socket.onclose: this.onClose?.(event)
onclose(cm) ==
    IF cm.onClose = "undefined" THEN cm ELSE [cm EXCEPT !.onCloseCalls = @ + 1]

\* a step of the RPCManager whose sends go through the ConnectionManager
BecomesConnected(S, message) ==
    /\ BecomesManager([S EXCEPT !.send = sendMessage], message)
    /\ sockets' = sendMessageOfConnection(sockets, S)
    /\ UNCHANGED <<connectionManager, processed>>

\* a message event of socket s: the RPCManager processes the message
BecomesProcessed(S, message, s) ==
    /\ BecomesManager([S EXCEPT !.send = sendMessage], message)
    /\ sockets' = [sendMessageOfConnection(sockets, S) EXCEPT ![s].messages = @ + 1]
    /\ processed' = onmessage(processed, s)
    /\ UNCHANGED connectionManager

\* connectionManager.onClose = (event) => { ... }
SetOnClose ==
    /\ connectionManager.onClose = "undefined"
    /\ connectionManager' = [connectionManager EXCEPT !.onClose = "function"]
    /\ BecomesManager(State, NoMessage)
    /\ UNCHANGED <<sockets, processed>>

\* connectionManager.openConnection()
OpenConnection ==
    /\ Len(sockets) < MaxConnections
    /\ sockets' = Append(sockets, NewWebSocket)
    /\ connectionManager' = [connectionManager EXCEPT !.socket = Len(sockets) + 1]
    /\ BecomesManager([State EXCEPT !.send = "supplied"], NoMessage)
    /\ UNCHANGED processed

\* connectionManager.closeConnection(): this._socket?.close()
CloseConnection ==
    /\ connectionManager.socket # 0
    /\ sockets[connectionManager.socket].readyState \in {"connecting", "open"}
    /\ sockets' = [sockets EXCEPT ![connectionManager.socket].readyState = "closing"]
    /\ BecomesManager(State, NoMessage)
    /\ UNCHANGED <<connectionManager, processed>>

\* the open event of a socket
SocketOpen ==
    \E s \in 1..Len(sockets) :
        /\ sockets[s].readyState = "connecting"
        /\ sockets' = [sockets EXCEPT ![s] = [onopen(@) EXCEPT !.readyState = "open"]]
        /\ BecomesManager(State, NoMessage)
        /\ UNCHANGED <<connectionManager, processed>>

\* the error event of a socket: the connection fails, while connecting, when
\* open or while closing; the close event follows
SocketError ==
    \E s \in 1..Len(sockets) :
        /\ sockets[s].readyState \in {"connecting", "open", "closing"}
        /\ ~sockets[s].failed
        /\ sockets' = [sockets EXCEPT ![s] = [onerror(@) EXCEPT !.readyState = "closing"]]
        /\ BecomesManager(State, NoMessage)
        /\ UNCHANGED <<connectionManager, processed>>

\* the close event of a socket: the peer has closed it, or it was closing
SocketClose ==
    \E s \in 1..Len(sockets) :
        /\ sockets[s].readyState \in {"open", "closing"}
        /\ sockets' = [sockets EXCEPT ![s].readyState = "closed"]
        /\ connectionManager' = onclose(connectionManager)
        /\ BecomesManager(State, NoMessage)
        /\ UNCHANGED processed

\* the caller: rpcManager.initialize(token), once
ConnectionInitialize ==
    /\ \A o \in 1..Len(ops) : ops[o].kind # "initialize"
    /\ BecomesConnected(initialize(ConnectedState, Str("token")), NoMessage)

\* a message event: the reply to authenticate; initialize goes on to
\* getRootObject, and is rejected when the send throws
SocketAuthenticateReply ==
    \E s \in 1..Len(sockets) :
        /\ sockets[s].readyState = "open"
        /\ \E id \in Pending(API_SERVER_METHOD_AUTHENTICATE) : \E reply \in AuthReplies :
              LET S1 == Took(ConnectedState, id)
                  S2 == initAuthenticated(S1, waiting[id].op, reply)
              IN  BecomesProcessed(IF Threw(S1, S2)
                                   THEN settle(S2, waiting[id].op, sendMessageError(S1))
                                   ELSE S2,
                                   ReplyMessage(id, reply), s)

\* a message event: a `callback` request
SocketCallback ==
    \E s \in 1..Len(sockets) :
        /\ sockets[s].readyState = "open"
        /\ Len(callbacks) < MaxSocketCallbacks
        /\ \E h \in PeerHandles : \E args \in CallbackArgLists : \E ret \in FnOutcomes :
              BecomesProcessed(handleAPICallback(ConnectedState,
                                                 CallbackIdBase + Len(callbacks),
                                                 h, args, ret),
                               CallbackMessage(CallbackIdBase + Len(callbacks), h, args),
                               s)

ConnectionNext ==
    \/ SetOnClose
    \/ OpenConnection
    \/ CloseConnection
    \/ SocketOpen
    \/ SocketError
    \/ SocketClose
    \/ ConnectionInitialize
    \/ SocketAuthenticateReply
    \/ SocketCallback

ConnectionSpec == DecodeInit /\ [][ConnectionNext]_vars

(***************************************************************************)
(* Vocabulary of the properties.                                           *)
(***************************************************************************)
Calls == {o \in 1..Len(ops) : ops[o].kind = "call"}
IsPending(o) == ops[o].pc \in {"await", "decode"}
PendingCalls == {o \in Calls : IsPending(o)}
SettledCalls == {o \in Calls : ~IsPending(o)}
ObjectArgs(o) == {a \in Range(ops[o].args) : InstanceofObject(a)}
FunctionArgs(o) == {a \in Range(ops[o].args) : TypeofFunction(a)}
GlobalFunctions == Range(ObjectValues(globalCallbacksMap))

\* no other reference has the handle of r
HandleIsItsOwn(r) ==
    \A x \in DOMAIN scriptObjectIdMap :
        scriptObjectIdMap[x] = scriptObjectIdMap[r] => x = r

\* C1: while a proxy method call is pending, whatever other calls were
\* started or have settled meanwhile, the handle of each of its object or
\* function arguments resolves to that argument.  (Stated for the arguments
\* whose handle no other reference carries: the clash of a local handle with
\* a handle of the peer is the subject of C5.)
C1_PendingArgumentResolves ==
    \A o \in PendingCalls : \A r \in ObjectArgs(o) :
        HandleIsItsOwn(r) => findScriptObject(State, scriptObjectIdMap[r]) = r

\* C2: once a proxy method call has settled, the handle of a function that
\* was its argument, that is an argument of no pending call and that is no
\* global callback, resolves to no function, so that a callback naming it is
\* answered with an error.
C2_SettledArgumentForgotten ==
    \A o \in SettledCalls : \A f \in FunctionArgs(o) :
        (/\ f \notin GlobalFunctions
         /\ \A q \in PendingCalls : f \notin ObjectArgs(q))
        => ~TypeofFunction(findScriptObject(State, scriptObjectIdMap[f]))

\* C5: in every state the handle of each configured global callback function
\* resolves to that function.
C5_GlobalCallbackResolves ==
    \A f \in GlobalFunctions : findScriptObject(State, scriptObjectIdMap[f]) = f

(***************************************************************************)
(* initialize.                                                             *)
(***************************************************************************)
InitOps == {o \in 1..Len(ops) : ops[o].kind = "initialize"}

\* the requests sent by initialize o itself, by the materialization of its
\* root object and by the method calls it makes, in the order sent
InitRequests(o) ==
    SelectSeq(sent, LAMBDA m : \/ m.by = o
                               \/ m.by \in Calls /\ ops[m.by].parent = o)

Replied(m) == m.id \notin DOMAIN waiting

\* the reply just processed is an error reply to a request of this method
ErrorReplyTo(method) ==
    /\ inbound.method = ""
    /\ inbound.id \in 1..Len(sent)
    /\ inbound.error
    /\ sent[inbound.id].method = method

\* C3: when the reply to authenticate carries an error, initialize rejects,
\* and the authenticate request stays the only message it has sent.  (An
\* initialize that could not send at all, for want of a send function, has
\* no reply to authenticate: it is the subject of C19.)
C3_AuthenticationErrorStopsInitialize ==
    /\ ErrorReplyTo(API_SERVER_METHOD_AUTHENTICATE)
          => /\ ops[sent[inbound.id].by].pc = "rejected"
             /\ ops[sent[inbound.id].by].stage = API_SERVER_METHOD_AUTHENTICATE
    /\ \A o \in InitOps :
          (/\ ops[o].pc = "rejected"
           /\ ops[o].stage = API_SERVER_METHOD_AUTHENTICATE
           /\ ops[o].result # NotImplemented)
          => /\ Len(InitRequests(o)) = 1
             /\ InitRequests(o)[1].method = API_SERVER_METHOD_AUTHENTICATE

\* C3, its case: authentication was refused, and the peer went on to send a
\* callback afterwards.
C3_Witness ==
    /\ \E o \in InitOps : /\ ops[o].pc = "rejected"
                          /\ ops[o].stage = API_SERVER_METHOD_AUTHENTICATE
    /\ Len(callbacks) > 0
    /\ Len(sent) = 1

\* the requests initialize has to send for root handle h, in order
ExpectedInitRequests(h) ==
    << [method |-> API_SERVER_METHOD_AUTHENTICATE, params |-> <<Str("token")>>],
       [method |-> API_SERVER_METHOD_GET_ROOT_OBJECT, params |-> <<>>],
       [method |-> API_SERVER_METHOD_DESCRIBE_VARIABLES, params |-> <<SO(h)>>],
       [method |-> API_SERVER_METHOD_DESCRIBE_FUNCTIONS, params |-> <<SO(h)>>] >>
    \o [k \in 1..Len(globalCallbacksMap) |->
           [method |-> API_SERVER_METHOD_CALL_FUNCTION,
            params |-> <<SO(h), Str("registerCallback"),
                         Str(globalCallbacksMap[k].name),
                         SO(scriptObjectIdMap[globalCallbacksMap[k].fn])>>]]

IsPrefix(s, u) == Len(s) <= Len(u) /\ \A i \in 1..Len(s) : s[i] = u[i]

CallbackArrives == Len(callbacks') = Len(callbacks) + 1

\* handle h is carried by no reference of a pushed frame, or the first
\* reference that carries it, frames taken from the front, is no function
NamesNoFunction(h) ==
    LET all == Flatten(scriptObjectListStack)
        carriers == {i \in 1..Len(all) : scriptObjectIdMap[all[i]] = h}
    IN  \/ carriers = {}
        \/ all[Min(carriers)].type # "function"

\* C4: a callback naming a handle that is in no pushed frame, or that
\* resolves to something that is not a function, is answered with an error
\* reply naming the handle; no function is called, and the tasks, the pending
\* requests and the frames are as they were.
C4_UnresolvedCallback ==
    [][(CallbackArrives /\ sendMessage = "supplied"
           /\ NamesNoFunction(inbound'.params[1].n))
          => /\ replies' = Append(replies,
                    [id |-> inbound'.id, result |-> NotFound(inbound'.params[1].n),
                     error |-> TRUE])
             /\ invocations' = invocations
             /\ ops' = ops
             /\ waiting' = waiting
             /\ sent' = sent
             /\ scriptObjectListStack' = scriptObjectListStack]_vars

\* C4, its case: while a method call is pending, a callback named the handle
\* of an argument of a pushed frame that is no function, and was refused.
C4_Witness ==
    /\ PendingCalls # {}
    /\ \E c \in 1..Len(callbacks) :
          /\ callbacks[c].fn.type \in {"object", "proxy"}
          /\ callbacks[c].pc = "rejected"
          /\ \E k \in 1..Len(replies) : replies[k].id = callbacks[c].id /\ replies[k].error

\* the reply sent for the callback of invocation k
ReplyOf(k) ==
    LET id == callbacks[invocations[k].callback].id
    IN  {replies[i] : i \in {j \in 1..Len(replies) : replies[j].id = id}}

\* C6 as stated: the reply to a callback carries the encoded return value of
\* the function.
C6_ReplyCarriesReturnValue ==
    \A k \in 1..Len(invocations) :
        (~IsThrown(invocations[k].ret) /\ invocations[k].send = "supplied")
        => ReplyOf(k) = {[id |-> callbacks[invocations[k].callback].id,
                          result |-> serialize(scriptObjectIdMap, invocations[k].ret),
                          error |-> FALSE]}

\* C6 as amended: when the function returns, whatever it returns, the reply
\* to the callback is the one reply with result `true`.
C6_ReplyIsTrue ==
    \A k \in 1..Len(invocations) :
        (~IsThrown(invocations[k].ret) /\ invocations[k].send = "supplied")
        => ReplyOf(k) = {[id |-> callbacks[invocations[k].callback].id,
                          result |-> Bool(TRUE), error |-> FALSE]}

\* C6, its case: a function called for a callback returned the number 7.
C6_Witness ==
    \E k \in 1..Len(invocations) :
        /\ invocations[k].ret = Num(7)
        /\ ReplyOf(k) # {}

(***************************************************************************)
(* Frames.                                                                 *)
(***************************************************************************)
\* C8: the frame stack is never empty, its last frame is the list of the
\* global callback functions given to the constructor, and it holds one more
\* frame than there are proxy method calls invoked and not settled, each of
\* which has sent its execute request.
C8_FrameDepth ==
    /\ Len(scriptObjectListStack) >= 1
    /\ scriptObjectListStack[Len(scriptObjectListStack)]
          = [call |-> 0, refs |-> [i \in 1..Len(globalCallbacksMap) |->
                                      globalCallbacksMap[i].fn]]
    /\ Len(scriptObjectListStack) = 1 + Cardinality(PendingCalls)
    /\ \A o \in PendingCalls :
          \E i \in 1..Len(sent) : /\ sent[i].by = o
                                  /\ sent[i].method = API_SERVER_METHOD_CALL_FUNCTION

\* how a settled call ended
EndedBySerializationFailure(o) ==
    /\ ops[o].pc = "rejected"
    /\ \A i \in 1..Len(sent) : sent[i].by # o
EndedByDecodingFailure(o) == ops[o].pc = "rejected" /\ ops[o].response = Other
EndedByErrorReply(o) ==
    /\ ops[o].pc = "rejected"
    /\ ops[o].response = Undefined
    /\ \E i \in 1..Len(sent) : sent[i].by = o
EndedByResult(o) == ops[o].pc = "resolved"

\* C8, its cases: with global callbacks configured, calls have ended by a
\* result and by a failure to serialize, and one is pending; two calls have
\* ended by an error reply and by a failure to decode the result.
C8_Witness ==
    /\ Len(globalCallbacksMap) = 2
    /\ \E o \in SettledCalls : EndedByResult(o)
    /\ \E o \in SettledCalls : EndedBySerializationFailure(o)
    /\ Cardinality(PendingCalls) = 1

C8_WitnessFailures ==
    /\ \E o \in SettledCalls : EndedByErrorReply(o)
    /\ \E o \in SettledCalls : EndedByDecodingFailure(o)

(***************************************************************************)
(* Proxy members.                                                          *)
(***************************************************************************)
\* the step invokes a proxy method: task n is new and is a call
CallInvoked(n) ==
    /\ n = Len(ops) + 1
    /\ Len(ops') = n
    /\ ops'[n].kind = "call"

\* the arguments that are objects or functions, in order
ReferencesOf(args) ==
    SelectSeq(args, LAMBDA a : a.type \in {"function", "object", "proxy"})

Encodable(args) ==
    \A i \in 1..Len(args) :
        args[i].type \in {"boolean", "number", "string", "undefined", "null",
                          "function", "object", "proxy"}

\* the wire form of argument a after the step: a scalar unchanged, the
\* absence value as {type:"empty"}, null as handle 0, a proxy as the handle
\* it was materialized from, a local reference as the handle it has, which is
\* a new one when it had none
Encoded(a) ==
    IF a.type \in {"boolean", "number", "string"} THEN a
    ELSE IF a.type = "undefined" THEN [type |-> "empty", n |-> 0, s |-> ""]
    ELSE IF a.type = "null" THEN [type |-> "scriptObject", n |-> 0, s |-> ""]
    ELSE IF a.type = "proxy"
    THEN [type |-> "scriptObject", n |-> proxies[a.n].handle, s |-> ""]
    ELSE [type |-> "scriptObject", n |-> scriptObjectIdMap'[a], s |-> ""]

KeepsOrGetsHandle(a) ==
    /\ a \in DOMAIN scriptObjectIdMap'
    /\ IF a \in DOMAIN scriptObjectIdMap
       THEN scriptObjectIdMap'[a] = scriptObjectIdMap[a]
       ELSE scriptObjectIdMap'[a] > lastScriptObjectId

\* the local value of an immediate wire value
Decoded1(v) ==
    IF v.type \in {"boolean", "number", "string"} THEN v
    ELSE IF v.type = "empty" THEN [type |-> "undefined", n |-> 0, s |-> ""]
    ELSE [type |-> "null", n |-> 0, s |-> ""]

\* a task that resolved has the decoded form of its response: a scalar
\* unchanged, {type:"empty"} as the absence value, handle 0 as null, another
\* handle as a proxy for that handle
ResolvedToDecodedResponse(o) ==
    ops[o].pc = "resolved"
    => IF ops[o].response.type = "scriptObject" /\ ops[o].response.n # 0
       THEN /\ ops[o].result.type = "proxy"
            /\ proxies[ops[o].result.n].handle = ops[o].response.n
       ELSE ops[o].result = Decoded1(ops[o].response)

\* the requests of a method sent by task o
RequestsOf(o, method) ==
    {i \in 1..Len(sent) : sent[i].by = o /\ sent[i].method = method}

\* C9: invoking a proxy method with encodable arguments registers every
\* argument that is an object or function, pushes a frame of exactly those
\* arguments, and sends one execute request with the target handle, the
\* method name and the encoded arguments in order; it sends no second execute
\* request, and the call resolves to the decoded reply.
C9_MethodCall ==
    /\ [][\A n \in {Len(ops) + 1} :
             (CallInvoked(n) /\ Encodable(ops'[n].args))
             => /\ \A a \in Range(ReferencesOf(ops'[n].args)) : KeepsOrGetsHandle(a)
                /\ Head(scriptObjectListStack')
                      = [call |-> n, refs |-> ReferencesOf(ops'[n].args)]
                /\ sent' = Append(sent,
                      [id |-> jrpcId + 1, method |-> "execute", by |-> n,
                       params |-> <<ops'[n].target, Str(ops'[n].name)>>
                                  \o [i \in 1..Len(ops'[n].args) |->
                                         Encoded(ops'[n].args[i])]])]_vars
    /\ [](\A o \in Calls :
             /\ Cardinality(RequestsOf(o, API_SERVER_METHOD_CALL_FUNCTION)) <= 1
             /\ ResolvedToDecodedResponse(o))

\* C9, its case: a call with a scalar, the absence value, null, an object and
\* a function has resolved, and so has one with a proxy.
C9_Witness ==
    /\ \E o \in Calls : /\ ops[o].args = <<Num(42), Undefined, Null, LocalObj, LocalFn1>>
                        /\ ops[o].pc = "resolved"
    /\ \E o \in Calls : /\ \E i \in 1..Len(proxies) : ops[o].args = <<Proxy(i)>>
                        /\ ops[o].pc = "resolved"

Gets == {o \in 1..Len(ops) : ops[o].kind = "get"}

\* the step reads a proxy property: task n is new and is a get
GetInvoked(n) ==
    /\ n = Len(ops) + 1
    /\ Len(ops') = n
    /\ ops'[n].kind = "get"

\* C10: reading property p of a proxy for handle h sends one get request
\* with params (h, p), and never a second one, and resolves to the decoded
\* reply; a handle other than 0 is decoded as a proxy materialized at that
\* moment.
C10_PropertyRead ==
    /\ [][\A n \in {Len(ops) + 1} :
             GetInvoked(n)
             => /\ \E i \in 1..Len(proxies) :
                      /\ ops'[n].target = SO(proxies[i].handle)
                      /\ ops'[n].name \in Range(proxies[i].properties)
                /\ sent' = Append(sent,
                      [id |-> jrpcId + 1, method |-> "get", by |-> n,
                       params |-> <<ops'[n].target, Str(ops'[n].name)>>])]_vars
    /\ [](\A o \in Gets :
             /\ Cardinality(RequestsOf(o, API_SERVER_METHOD_GET_VALUE)) = 1
             /\ ResolvedToDecodedResponse(o))
    /\ [][\A o \in Gets :
             (ops[o].pc # "resolved" /\ ops'[o].pc = "resolved"
                 /\ ops'[o].result.type = "proxy")
             => /\ Len(proxies') = Len(proxies) + 1
                /\ ops'[o].result = Proxy(Len(proxies'))]_vars

\* C10, its cases: reads have resolved to the absence value and to null; a
\* read has resolved to a scalar and another one to a new proxy.
C10_Witness ==
    /\ \E o \in Gets : ops[o].pc = "resolved" /\ ops[o].result = Undefined
    /\ \E o \in Gets : ops[o].pc = "resolved" /\ ops[o].result = Null

C10_WitnessProxy ==
    /\ \E o \in Gets : ops[o].pc = "resolved" /\ ops[o].result = Num(42)
    /\ \E o \in Gets : ops[o].pc = "resolved" /\ ops[o].result.type = "proxy"

(***************************************************************************)
(* Property writes.                                                        *)
(***************************************************************************)
Sets == {o \in 1..Len(ops) : ops[o].kind = "set"}

\* the step assigns to a proxy property: task n is new and is a set
SetInvoked(n) ==
    /\ n = Len(ops) + 1
    /\ Len(ops') = n
    /\ ops'[n].kind = "set"

\* the value is a scalar, the absence value, null, or a reference that has a
\* handle
HasWireForm(v) ==
    \/ v.type \in {"boolean", "number", "string", "undefined", "null"}
    \/ v \in DOMAIN scriptObjectIdMap

\* the step processes the reply to a pending request of this method
ReplyArrivesTo(method) ==
    /\ inbound'.method = ""
    /\ inbound'.id \in DOMAIN waiting
    /\ waiting[inbound'.id].method = method

\* C11: assigning v to property p of a proxy for handle h sends one set
\* request with params (h, p, enc(v)), and never a second one; the step that
\* processes the reply to a set request, whatever the reply carries, sends
\* nothing, starts no materialization and creates no proxy, and a reply
\* without error resolves the write to nothing.
C11_PropertyWrite ==
    /\ [][\A n \in {Len(ops) + 1} :
             (SetInvoked(n) /\ HasWireForm(ops'[n].args[1]))
             => /\ \E i \in 1..Len(proxies) :
                      /\ ops'[n].target = SO(proxies[i].handle)
                      /\ ops'[n].name \in Range(proxies[i].properties)
                /\ sent' = Append(sent,
                      [id |-> jrpcId + 1, method |-> "set", by |-> n,
                       params |-> <<ops'[n].target, Str(ops'[n].name),
                                    Encoded(ops'[n].args[1])>>])]_vars
    /\ [](\A o \in Sets : Cardinality(RequestsOf(o, API_SERVER_METHOD_SET_VALUE)) <= 1)
    /\ [][ReplyArrivesTo(API_SERVER_METHOD_SET_VALUE)
             => /\ sent' = sent
                /\ describes' = describes
                /\ proxies' = proxies
                /\ scriptObjectIdMap' = scriptObjectIdMap
                /\ ~inbound'.error
                      => /\ ops'[waiting[inbound'.id].op].pc = "resolved"
                         /\ ops'[waiting[inbound'.id].op].result = Undefined]_vars

\* C11, its case: a proxy was assigned to a property, and the reply to that
\* set request carried handle 123.
C11_Witness ==
    /\ inbound.method = ""
    /\ inbound.id \in 1..Len(sent)
    /\ sent[inbound.id].method = API_SERVER_METHOD_SET_VALUE
    /\ inbound.result = SO(123)
    /\ ops[sent[inbound.id].by].args[1].type = "proxy"
    /\ ops[sent[inbound.id].by].pc = "resolved"

(***************************************************************************)
(* Proxies.                                                                *)
(***************************************************************************)
\* C12: a proxy is built by the step that processes a listMethods reply, for
\* the handle described, with the names of the listProperties reply as its
\* properties and the names of the listMethods reply as its methods, no name
\* twice and no other member; no step changes a proxy that exists, whatever
\* later replies describe its handle.
C12_ProxyMembers ==
    /\ [][(ReplyArrivesTo(API_SERVER_METHOD_DESCRIBE_VARIABLES) /\ ~inbound'.error)
             => describes'[waiting[inbound'.id].d].properties = inbound'.names]_vars
    /\ [][/\ Len(proxies') >= Len(proxies)
          /\ \A i \in 1..Len(proxies) : proxies'[i] = proxies[i]
          /\ Len(proxies') > Len(proxies)
                => /\ ReplyArrivesTo(API_SERVER_METHOD_DESCRIBE_FUNCTIONS)
                   /\ ~inbound'.error
                   /\ Len(proxies') = Len(proxies) + 1
                   /\ LET d == describes[waiting[inbound'.id].d]
                          new == proxies'[Len(proxies')]
                      IN  /\ new.handle = d.target.n
                          /\ new.properties = d.properties
                          /\ new.methods = inbound'.names
                          /\ \A i, j \in 1..Len(new.properties \o new.methods) :
                                (new.properties \o new.methods)[i]
                                    = (new.properties \o new.methods)[j] => i = j]_vars

\* C12, its cases: two proxies were built for handle 123 from different
\* listMethods replies; a description whose replies name `n` twice has failed.
C12_Witness ==
    /\ \E i, j \in 1..Len(proxies) :
          /\ i < j
          /\ proxies[i].handle = 123
          /\ proxies[j].handle = 123
          /\ proxies[i].methods # proxies[j].methods
    /\ \E d \in 1..Len(describes) : describes[d].stage = "failed"

C12_WitnessClash ==
    /\ inbound.method = ""
    /\ inbound.names = <<"n">>
    /\ inbound.id \in 1..Len(sent)
    /\ sent[inbound.id].method = API_SERVER_METHOD_DESCRIBE_FUNCTIONS
    /\ \E d \in 1..Len(describes) :
          describes[d].stage = "failed" /\ describes[d].properties = <<"n">>

(***************************************************************************)
(* Handles.                                                                *)
(***************************************************************************)
\* the references this side has registered: all but the proxies
LocalRefs == {r \in DOMAIN scriptObjectIdMap : r.type # "proxy"}

\* the place of the first occurrence of r in args
FirstAt(args, r) == Min({i \in 1..Len(args) : args[i] = r})

CallerReferences == {GlobalFn1, GlobalFn2, LocalFn1, LocalFn2, LocalObj}

\* the task rejected in the step it was invoked in
RejectedAtOnce(n) ==
    /\ ops'[n].pc = "rejected"
    /\ ops'[n].result.type = "thrown"
    /\ sent' = sent
    /\ replies' = replies
    /\ waiting' = waiting

\* C14: serializing a reference that has no handle throws; a property write
\* with a value that has no wire form rejects in the step of the assignment
\* and sends nothing; a proxy method call with an argument that cannot be
\* encoded rejects in the step of the invocation, sends nothing and leaves
\* the frame stack as it was.
C14_NotEncodable ==
    /\ [](\A r \in CallerReferences \ DOMAIN scriptObjectIdMap :
             IsThrown(serialize(scriptObjectIdMap, r)))
    /\ [][\A n \in {Len(ops) + 1} :
             (SetInvoked(n) /\ ~HasWireForm(ops'[n].args[1])) => RejectedAtOnce(n)]_vars
    /\ [][\A n \in {Len(ops) + 1} :
             (CallInvoked(n) /\ ~Encodable(ops'[n].args))
             => /\ RejectedAtOnce(n)
                /\ scriptObjectListStack' = scriptObjectListStack]_vars

\* C14, its case: a write of a function that was never registered and a call
\* with a function and a BigInt as arguments were both rejected.
C14_Witness ==
    /\ \E o \in Sets : /\ ops[o].pc = "rejected"
                        /\ ops[o].args = <<LocalFn1>>
                        /\ RequestsOf(o, API_SERVER_METHOD_SET_VALUE) = {}
    /\ \E o \in Calls : /\ ops[o].pc = "rejected"
                         /\ ops[o].args = <<LocalFn1, LocalBigInt>>
                         /\ RequestsOf(o, API_SERVER_METHOD_CALL_FUNCTION) = {}

(***************************************************************************)
(* The invalid handle.                                                     *)
(***************************************************************************)
\* the step processes a reply without error whose result is handle 0
InvalidHandleArrives ==
    /\ inbound'.method = ""
    /\ inbound'.id \in DOMAIN waiting
    /\ ~inbound'.error
    /\ inbound'.result = [type |-> "scriptObject", n |-> 0, s |-> ""]

\* C15: in every state, whatever handles have been assigned or described,
\* null is serialized as handle 0 and handle 0 is deserialized as null; a
\* write of null sends handle 0; the step that processes a reply carrying
\* handle 0 sends nothing and starts no materialization, and a property read
\* so answered resolves to null; handle 0 as the argument of a callback
\* reaches the function as null.
C15_InvalidHandle ==
    /\ [](/\ serialize(scriptObjectIdMap, [type |-> "null", n |-> 0, s |-> ""])
               = [type |-> "scriptObject", n |-> 0, s |-> ""]
          /\ deserialize([type |-> "scriptObject", n |-> 0, s |-> ""])
               = [type |-> "null", n |-> 0, s |-> ""]
          /\ \A o \in Sets :
                ops[o].args = <<[type |-> "null", n |-> 0, s |-> ""]>>
                => \E i \in 1..Len(sent) :
                      /\ sent[i].by = o
                      /\ sent[i].params[3] = [type |-> "scriptObject", n |-> 0, s |-> ""]
          /\ \A k \in 1..Len(invocations) :
                \A i \in 1..Len(invocations[k].args) :
                   callbacks[invocations[k].callback].args[i]
                       = [type |-> "scriptObject", n |-> 0, s |-> ""]
                   => invocations[k].args[i] = [type |-> "null", n |-> 0, s |-> ""])
    /\ [][InvalidHandleArrives
             => /\ sent' = sent
                /\ describes' = describes
                /\ proxies' = proxies
                /\ waiting[inbound'.id].method = API_SERVER_METHOD_GET_VALUE
                      => /\ ops'[waiting[inbound'.id].op].pc = "resolved"
                         /\ ops'[waiting[inbound'.id].op].result
                               = [type |-> "null", n |-> 0, s |-> ""]]_vars

\* C15, its case: after handles were assigned on this side and a handle of
\* the peer was described, null was written to a property and a property
\* read was answered with handle 0.
C15_Witness ==
    /\ lastScriptObjectId >= 2
    /\ Len(proxies) >= 1
    /\ \E o \in Sets : /\ ops[o].args = <<Null>>
                        /\ RequestsOf(o, API_SERVER_METHOD_SET_VALUE) # {}
    /\ \E o \in Gets : /\ ops[o].pc = "resolved"
                        /\ ops[o].response = SO(API_VALUE_INVALID_SCRIPT_OBJECT)
                        /\ ops[o].result = Null

(***************************************************************************)
(* Round trips.                                                            *)
(***************************************************************************)
CodecOps == {o \in 1..Len(ops) : ops[o].kind = "codec"}

\* C16 (under CodecSpec): serializing the absence value gives {type:"empty"}
\* and deserializing that gives the absence value back; a boolean, a number
\* or a string is serialized to itself and deserialized to itself.
C16_RoundTrip ==
    \A o \in CodecOps :
        LET v == ops[o].args[1]
        IN  /\ v.type = "undefined"
                  => /\ ops[o].response = [type |-> "empty", n |-> 0, s |-> ""]
                     /\ ops[o].result = v
            /\ v.type \in {"boolean", "number", "string"}
                  => /\ ops[o].response = v
                     /\ ops[o].result = v

\* C16, its case: the absence value and the string "empty" have both made the
\* round trip, under a registry that holds handles.
C16_Witness ==
    /\ lastScriptObjectId >= 1
    /\ \E o \in CodecOps : ops[o].args = <<Undefined>> /\ ops[o].pc = "resolved"
    /\ \E o \in CodecOps : ops[o].args = <<Str("empty")>> /\ ops[o].pc = "resolved"

\* C17: in every state, serializing a proxy gives the handle it was built
\* for; a write whose value is a proxy and a method call whose argument is a
\* proxy have sent that handle.
C17_ProxySerializesToItsHandle ==
    /\ \A i \in 1..Len(proxies) :
          serialize(scriptObjectIdMap, [type |-> "proxy", n |-> i, s |-> ""])
              = [type |-> "scriptObject", n |-> proxies[i].handle, s |-> ""]
    /\ \A o \in Sets \cup Calls : \A k \in 1..Len(ops[o].args) :
          (ops[o].args[k].type = "proxy" /\ Encodable(ops[o].args))
          => \E m \in 1..Len(sent) :
                /\ sent[m].by = o
                /\ sent[m].method \in {"set", "execute"}
                /\ sent[m].params[2 + k]
                      = [type |-> "scriptObject",
                         n |-> proxies[ops[o].args[k].n].handle, s |-> ""]

\* C17, its case: two proxies were built for handle 123; the second one was
\* written to a property, and no proxy has been an argument of a method call.
C17_Witness ==
    /\ \E i, j \in 1..Len(proxies) :
          /\ i < j
          /\ proxies[i].handle = 123
          /\ proxies[j].handle = 123
          /\ \E o \in Sets : /\ ops[o].args = <<Proxy(j)>>
                              /\ RequestsOf(o, API_SERVER_METHOD_SET_VALUE) # {}
    /\ \A o \in Calls : \A k \in 1..Len(ops[o].args) : ops[o].args[k].type # "proxy"

(***************************************************************************)
(* No queueing.                                                            *)
(***************************************************************************)
\* the property writes and method calls made by the caller
WritesAndCalls ==
    {o \in 1..Len(ops) : ops[o].kind \in {"set", "call"} /\ ops[o].parent = 0}

\* the places in `sent` of the set or execute request of task o
SentAt(o) ==
    {i \in 1..Len(sent) : sent[i].by = o /\ sent[i].method \in {"set", "execute"}}

\* C18: a write or call that is pending has its request among the messages
\* sent, however many earlier requests are unanswered; the requests are in
\* the order of the invocations; the step of an invocation with encodable
\* values adds exactly its one message; and a write or call that awaits its
\* reply is changed by no step but the one processing the reply whose id is
\* the id of its own request.
C18_NoQueueing ==
    /\ [](/\ \A o \in WritesAndCalls : ops[o].pc = "await" => SentAt(o) # {}
          /\ \A o, q \in WritesAndCalls :
                (o < q /\ SentAt(o) # {} /\ SentAt(q) # {})
                => Min(SentAt(o)) < Min(SentAt(q)))
    /\ [][\A n \in {Len(ops) + 1} :
             \/ SetInvoked(n) /\ HasWireForm(ops'[n].args[1])
             \/ CallInvoked(n) /\ Encodable(ops'[n].args)
             => /\ Len(sent') = Len(sent) + 1
                /\ sent'[Len(sent')].by = n
                /\ ops'[n].pc = "await"]_vars
    /\ [][\A o \in WritesAndCalls :
             (ops[o].pc = "await" /\ ops'[o] # ops[o])
             => /\ inbound'.method = ""
                /\ inbound'.id \in SentAt(o)
                /\ inbound'.id \in DOMAIN waiting
                /\ ops'[o].pc # "await"]_vars

\* C18, its case: two calls were invoked one after the other, both requests
\* went out before any reply, and the second was answered and has settled
\* while the first still awaits its reply.
C18_Witness ==
    \E o, q \in WritesAndCalls :
        /\ o < q
        /\ ops[o].pc = "await"
        /\ ops[q].pc = "resolved"
        /\ SentAt(o) # {}
        /\ SentAt(q) = {Min(SentAt(o)) + 1}

(***************************************************************************)
(* The transport hook.                                                     *)
(***************************************************************************)
\* the step invokes initialize: task n is new and is an initialize
InitializeInvoked(n) ==
    /\ n = Len(ops) + 1
    /\ Len(ops') = n
    /\ ops'[n].kind = "initialize"

\* C19: as long as no send function has been supplied, no message has left
\* and no request is pending; every step that has a message to send (an
\* invocation of initialize, the processing of a callback) makes the method
\* of the class throw once, and initialize rejects with that error.  Once a
\* function is supplied it stays, the method of the class throws no more,
\* the requests passed to it are those with the ids 1, 2, ... once each, and
\* the processing of a callback passes it exactly one reply, with the id of
\* the callback.
C19_SendMessage ==
    /\ [](/\ sendMessage # "supplied"
                => (sent = <<>> /\ replies = <<>> /\ DOMAIN waiting = {})
          /\ jrpcId = Len(sent)
          /\ \A i \in 1..Len(sent) : sent[i].id = i)
    /\ [][\A n \in {Len(ops) + 1} :
             (sendMessage # "supplied" /\ (InitializeInvoked(n) \/ CallbackArrives))
             => /\ sendErrors' = sendErrors + 1
                /\ sent' = sent
                /\ replies' = replies
                /\ InitializeInvoked(n)
                      => /\ ops'[n].pc = "rejected"
                         /\ ops'[n].result
                               = [type |-> "thrown", n |-> 0,
                                  s |-> "Method sendMessage is not implemented"]]_vars
    /\ [][sendMessage = "supplied"
             => /\ sendMessage' = "supplied"
                /\ sendErrors' = sendErrors
                /\ IF CallbackArrives
                   THEN /\ Len(replies') = Len(replies) + 1
                        /\ replies'[Len(replies')].id = inbound'.id
                        /\ \A i \in 1..Len(replies) : replies'[i] = replies[i]
                   ELSE replies' = replies
                /\ InitializeInvoked(Len(ops) + 1)
                      => /\ Len(sent') = Len(sent) + 1
                         /\ ops'[Len(ops')].pc = "await"]_vars

\* C19, its case: a callback was processed before a send function was
\* supplied; after it was supplied, initialize was invoked and has sent its
\* first request.
C19_Witness ==
    /\ sendErrors = 1
    /\ Len(callbacks) = 1
    /\ replies = <<>>
    /\ sendMessage = "supplied"
    /\ Len(sent) >= 1

\* C19, another case: initialize was invoked before a send function was
\* supplied.
C19_WitnessInitialize ==
    /\ sendErrors = 1
    /\ sent = <<>>
    /\ \E o \in InitOps : ops[o].pc = "rejected" /\ ops[o].result = NotImplemented

(***************************************************************************)
(* The frame a settling call removes.                                      *)
(***************************************************************************)
\* the stack without the frames that call o pushed
WithoutFramesOf(stack, o) == SelectSeq(stack, LAMBDA frame : frame.call # o)

\* the step settles call o, which was pending before it
CallSettles(o) ==
    /\ o \in PendingCalls
    /\ ops'[o].pc \notin {"await", "decode"}

\* the frames of the next state that the step did not push: those of the
\* constructor and of the calls invoked before the step
FramesKept == SelectSeq(scriptObjectListStack', LAMBDA frame : frame.call <= Len(ops))

\* C20: the step in which a pending proxy method call settles removes from
\* the frame stack the frame that this call pushed and no other frame, in
\* whatever order the pending calls settle.  (A frame that the continuation
\* of the settled call pushes in the same step is not counted.)
C20_SettlingCallRemovesItsOwnFrame ==
    [][\A o \in Calls :
          CallSettles(o)
          => FramesKept = WithoutFramesOf(scriptObjectListStack, o)]_vars

(***************************************************************************)
(* Handles in the frames.                                                  *)
(***************************************************************************)
\* the references of the pushed frames, front frame first
FrameReferences == Flatten(scriptObjectListStack)

\* C21: no two distinct references that are in the pushed frames at the same
\* time carry the same handle, the proxies among them, whose handle the peer
\* chose, included.
C21_FrameHandlesDistinct ==
    \A i, j \in 1..Len(FrameReferences) :
        FrameReferences[i] # FrameReferences[j]
        => scriptObjectIdMap[FrameReferences[i]] # scriptObjectIdMap[FrameReferences[j]]

(***************************************************************************)
(* Serializing a reference that is in no frame.                            *)
(***************************************************************************)
\* C22: a property write whose value is a local function or object that is
\* in no pushed frame, the permanent one included, rejects in the step of the
\* assignment and sends no message.
C22_WriteOfUnreachableReferenceFails ==
    [][\A n \in {Len(ops) + 1} :
          (/\ SetInvoked(n)
           /\ ops'[n].args[1].type \in {"function", "object"}
           /\ ops'[n].args[1] \notin Range(FrameReferences))
          => RejectedAtOnce(n)]_vars

(***************************************************************************)
(* Calls that are never answered.                                          *)
(***************************************************************************)
\* the execute request of call o has been sent and has no reply yet
ExecuteUnanswered(o) ==
    \E id \in DOMAIN waiting :
        /\ waiting[id].op = o
        /\ waiting[id].method = API_SERVER_METHOD_CALL_FUNCTION

\* C23, its second half: as long as the execute request of a call has
\* received no reply, the call has not settled and the frame it pushed is on
\* the stack.
C23_UnansweredCallKeepsItsFrame ==
    \A o \in Calls :
        ExecuteUnanswered(o)
        => /\ IsPending(o)
           /\ \E i \in 1..Len(scriptObjectListStack) : scriptObjectListStack[i].call = o

\* ResultSpec with every pending request answered in the end
FairResultSpec ==
    /\ ResultSpec
    /\ WF_vars(AuthenticateReply)
    /\ WF_vars(DecodeGetRootObjectReply)
    /\ WF_vars(ResultExecuteReply)
    /\ WF_vars(ListPropertiesReply)
    /\ WF_vars(DecodeListMethodsReply)

\* the first half of C23 (under FairResultSpec): every proxy method call
\* settles in the end, and the frame stack ends as the permanent frame alone
C23_EveryCallSettles ==
    /\ \A o \in 1..(MaxResultCalls + 1) : [](o \in PendingCalls => <>(o \in SettledCalls))
    /\ <>[](scriptObjectListStack = <<[call |-> 0, refs |-> <<>>]>>)

(***************************************************************************)
(* The frame of a call while its result is decoded.                        *)
(***************************************************************************)
\* the result of call o is being decoded: the execute reply carried a handle
\* and the description of that handle is not finished
Decoding(o) == o \in Calls /\ ops[o].pc = "decode"

\* C24 (under ResultSpec): while the result of a proxy method call is being
\* decoded, the frame the call pushed is on the stack, and the handle of each
\* function among its arguments resolves to that function, so that a callback
\* naming it then is not refused.
C24_FrameStaysWhileDecoding ==
    \A o \in Calls :
        Decoding(o)
        => /\ \E i \in 1..Len(scriptObjectListStack) : scriptObjectListStack[i].call = o
           /\ \A f \in FunctionArgs(o) :
                 findScriptObject(State, scriptObjectIdMap[f]) = f

(***************************************************************************)
(* Materialization.                                                        *)
(***************************************************************************)
\* the step starts a run of _describeScriptObject
DescribeStarts == Len(describes') = Len(describes) + 1

\* the requests of this method that the step sends
NewRequests(method) ==
    {i \in (Len(sent) + 1)..Len(sent') : sent'[i].method = method}

\* C25: the step that starts the materialization of a proxy for handle h
\* sends listProperties(h) and no listMethods; listMethods(h) is sent by the
\* step that processes the listProperties reply, when that is no error, and
\* by no other step; a proxy is built and the waiting task resumed with it
\* only by the step that processes the listMethods reply; an error reply to
\* either request sends nothing, builds no proxy and rejects the waiting task.
C25_DescribeOrder ==
    /\ [][DescribeStarts
             => /\ sent' = Append(sent,
                      [id |-> jrpcId + 1, method |-> "listProperties",
                       by |-> describes'[Len(describes')].op,
                       params |-> <<describes'[Len(describes')].target>>])
                /\ describes'[Len(describes')].target.n # 0]_vars
    /\ [][NewRequests(API_SERVER_METHOD_DESCRIBE_FUNCTIONS) # {}
             => /\ ReplyArrivesTo(API_SERVER_METHOD_DESCRIBE_VARIABLES)
                /\ ~inbound'.error
                /\ sent' = Append(sent,
                      [id |-> jrpcId + 1, method |-> "listMethods",
                       by |-> waiting[inbound'.id].op,
                       params |-> <<describes[waiting[inbound'.id].d].target>>])]_vars
    /\ [][(ReplyArrivesTo(API_SERVER_METHOD_DESCRIBE_VARIABLES) /\ ~inbound'.error)
             => /\ Cardinality(NewRequests(API_SERVER_METHOD_DESCRIBE_FUNCTIONS)) = 1
                /\ proxies' = proxies
                /\ ops'[waiting[inbound'.id].op].pc = ops[waiting[inbound'.id].op].pc
                /\ IsPending(waiting[inbound'.id].op)]_vars
    /\ [][\A o \in 1..Len(ops) :
             (ops[o].result.type # "proxy" /\ ops'[o].result.type = "proxy")
             => /\ ReplyArrivesTo(API_SERVER_METHOD_DESCRIBE_FUNCTIONS)
                /\ ~inbound'.error
                /\ waiting[inbound'.id].op = o
                /\ ops'[o].result = [type |-> "proxy", n |-> Len(proxies'), s |-> ""]
                /\ Len(proxies') = Len(proxies) + 1]_vars
    /\ [][((\/ ReplyArrivesTo(API_SERVER_METHOD_DESCRIBE_VARIABLES)
            \/ ReplyArrivesTo(API_SERVER_METHOD_DESCRIBE_FUNCTIONS)) /\ inbound'.error)
             => /\ sent' = sent
                /\ proxies' = proxies
                /\ ops'[waiting[inbound'.id].op].pc = "rejected"
                /\ ops'[waiting[inbound'.id].op].result.type = "thrown"]_vars

\* C25, its cases: initialize has resolved with a proxy after both replies;
\* a property read has failed over an error reply to its listMethods request,
\* after its listProperties request had been answered.
C25_Witness ==
    /\ \E o \in InitOps : ops[o].pc = "resolved" /\ ops[o].result.type = "proxy"
    /\ inbound.method = ""
    /\ inbound.error
    /\ inbound.id \in 1..Len(sent)
    /\ sent[inbound.id].method = API_SERVER_METHOD_DESCRIBE_FUNCTIONS
    /\ ops[sent[inbound.id].by].kind = "get"
    /\ ops[sent[inbound.id].by].pc = "rejected"

\* C25, another case: a materialization has failed over an error reply to its
\* listProperties request.
C25_WitnessProperties ==
    /\ inbound.method = ""
    /\ inbound.error
    /\ inbound.id \in 1..Len(sent)
    /\ sent[inbound.id].method = API_SERVER_METHOD_DESCRIBE_VARIABLES
    /\ ops[sent[inbound.id].by].pc = "rejected"

(***************************************************************************)
(* No cache of proxies.                                                    *)
(***************************************************************************)
\* the tasks whose response, a handle other than the invalid one, has been
\* given to _deserialize
HandleResponses ==
    {o \in 1..Len(ops) : /\ ops[o].kind \in {"initialize", "get", "call"}
                         /\ ops[o].response.type = "scriptObject"
                         /\ ops[o].response.n # 0}

\* the requests of a method sent, whoever sent them
AllRequests(method) == {i \in 1..Len(sent) : sent[i].method = method}

\* C26 as stated: once every request is answered, as many listProperties
\* requests, as many listMethods requests and as many proxies have been made
\* as handles other than the invalid one have been deserialized.
C26_DescribePairPerHandle ==
    DOMAIN waiting = {}
    => /\ Cardinality(AllRequests(API_SERVER_METHOD_DESCRIBE_VARIABLES))
             = Cardinality(HandleResponses)
       /\ Cardinality(AllRequests(API_SERVER_METHOD_DESCRIBE_FUNCTIONS))
             = Cardinality(HandleResponses)
       /\ Len(proxies) = Cardinality(HandleResponses)

\* C26 as amended: every deserialization of a handle other than the invalid
\* one sends one listProperties request for it, whatever proxies exist, so
\* that there are as many of these requests as such handles deserialized;
\* one listMethods request for it follows when the listProperties reply is no
\* error, and none otherwise; and when the listMethods reply is no error and
\* no member is named twice, a new proxy is built for the handle, also when
\* a proxy for that handle exists, and a property read that waits for it
\* resolves to the new proxy.
C26_NoProxyCache ==
    /\ [](/\ Cardinality(AllRequests(API_SERVER_METHOD_DESCRIBE_VARIABLES))
                = Cardinality(HandleResponses)
          /\ Len(describes) = Cardinality(HandleResponses)
          /\ \A o \in HandleResponses :
                /\ Cardinality(RequestsOf(o, API_SERVER_METHOD_DESCRIBE_VARIABLES)) = 1
                /\ Cardinality(RequestsOf(o, API_SERVER_METHOD_DESCRIBE_FUNCTIONS)) <= 1
                /\ \A i \in RequestsOf(o, API_SERVER_METHOD_DESCRIBE_VARIABLES)
                          \cup RequestsOf(o, API_SERVER_METHOD_DESCRIBE_FUNCTIONS) :
                      sent[i].params = <<ops[o].response>>
          /\ Len(proxies)
                <= Cardinality(AllRequests(API_SERVER_METHOD_DESCRIBE_FUNCTIONS)))
    /\ [][ReplyArrivesTo(API_SERVER_METHOD_DESCRIBE_VARIABLES)
             => Cardinality(NewRequests(API_SERVER_METHOD_DESCRIBE_FUNCTIONS))
                   = IF inbound'.error THEN 0 ELSE 1]_vars
    /\ [][(/\ ReplyArrivesTo(API_SERVER_METHOD_DESCRIBE_FUNCTIONS)
           /\ ~inbound'.error
           /\ ~HasDuplicates(describes[waiting[inbound'.id].d].properties
                                \o inbound'.names))
             => /\ Len(proxies') = Len(proxies) + 1
                /\ \A i \in 1..Len(proxies) : proxies'[i] = proxies[i]
                /\ proxies'[Len(proxies')].handle
                      = describes[waiting[inbound'.id].d].target.n
                /\ ops[waiting[inbound'.id].op].kind = "get"
                      => ops'[waiting[inbound'.id].op].result
                            = [type |-> "proxy", n |-> Len(proxies'), s |-> ""]]_vars

\* C26, its case: handle 123 was deserialized twice after its first proxy was
\* built, and there are three proxies for it, every request answered.
C26_Witness ==
    /\ DOMAIN waiting = {}
    /\ Len(proxies) = 3
    /\ \A i \in 1..Len(proxies) : proxies[i].handle = 123
    /\ Cardinality(AllRequests(API_SERVER_METHOD_DESCRIBE_VARIABLES)) = 3
    /\ Cardinality(AllRequests(API_SERVER_METHOD_DESCRIBE_FUNCTIONS)) = 3

(***************************************************************************)
(* Callbacks with arguments to describe.                                   *)
(***************************************************************************)
\* the runs of _handleAPICallback that found a function
FoundFunction == {c \in 1..Len(callbacks) : callbacks[c].fn.type = "function"}

\* the calls of the function made for callback c
InvocationsOf(c) == {k \in 1..Len(invocations) : invocations[k].callback = c}

\* the runs of _describeScriptObject started for the arguments of callback c
DescribesOf(c) ==
    {d \in 1..Len(describes) : describes[d].slot > 0 /\ describes[d].op = c}

\* the replies sent to callback c
RepliesTo(c) == {i \in 1..Len(replies) : replies[i].id = callbacks[c].id}

\* an argument of callback c cannot be decoded, or its description has failed
DecodingFailed(c) ==
    \/ \E i \in 1..Len(callbacks[c].args) :
          callbacks[c].args[i].type \notin
              {"boolean", "number", "string", "empty", "scriptObject"}
    \/ \E d \in DescribesOf(c) : describes[d].stage = "failed"

\* argument i of callback c as the function has to receive it
ArgumentDecoded(c, i, v) ==
    LET a == callbacks[c].args[i]
    IN  IF a.type = "scriptObject" /\ a.n # 0
        THEN /\ v.type = "proxy"
             /\ v.n \in 1..Len(proxies)
             /\ proxies[v.n].handle = a.n
        ELSE v = Decoded1(a)

\* C27 (under ArgumentSpec): for a callback that resolved to a function, one
\* description is started for every argument that is a handle other than 0;
\* the function is called at most once, and when it is called every
\* description has finished and every argument is decoded (a handle as a
\* proxy for that handle); it has been called once every description has
\* finished, if no argument failed to decode; if an argument fails to decode,
\* the function is never called and the one reply is an error.  No reply is
\* sent while arguments are being decoded, and exactly one afterwards.
C27_CallbackArguments ==
    /\ [](\A c \in FoundFunction :
             /\ Cardinality(DescribesOf(c))
                   = Cardinality({i \in 1..Len(callbacks[c].args) :
                                     /\ callbacks[c].args[i].type = "scriptObject"
                                     /\ callbacks[c].args[i].n # 0})
             /\ Cardinality(InvocationsOf(c)) <= 1
             /\ \A k \in InvocationsOf(c) :
                   /\ invocations[k].fn = callbacks[c].fn
                   /\ \A d \in DescribesOf(c) : describes[d].stage = "done"
                   /\ Len(invocations[k].args) = Len(callbacks[c].args)
                   /\ \A i \in 1..Len(callbacks[c].args) :
                         ArgumentDecoded(c, i, invocations[k].args[i])
             /\ (/\ ~DecodingFailed(c)
                 /\ \A d \in DescribesOf(c) : describes[d].stage = "done")
                   => Cardinality(InvocationsOf(c)) = 1
             /\ DecodingFailed(c)
                   => /\ InvocationsOf(c) = {}
                      /\ callbacks[c].pc = "rejected"
                      /\ Cardinality(RepliesTo(c)) = 1
                      /\ \A i \in RepliesTo(c) : replies[i].error
             /\ callbacks[c].pc = "decode" => RepliesTo(c) = {}
             /\ callbacks[c].pc # "decode" => Cardinality(RepliesTo(c)) = 1)
    /\ [][\A c \in FoundFunction :
             (InvocationsOf(c) = {} /\ callbacks[c].pc = "decode")
             => \/ callbacks'[c].pc = "decode"
                \/ ReplyArrivesTo(API_SERVER_METHOD_DESCRIBE_VARIABLES)
                \/ ReplyArrivesTo(API_SERVER_METHOD_DESCRIBE_FUNCTIONS)]_vars

\* C27, its cases: a function was called with the proxies of two handles,
\* each described by two round trips; a callback whose second handle could
\* not be described after the first one had been was answered with an error,
\* its function not called.
C27_Witness ==
    \E c \in FoundFunction :
        /\ callbacks[c].args = <<SO(123), SO(124)>>
        /\ Cardinality(InvocationsOf(c)) = 1
        /\ \A k \in InvocationsOf(c) :
              /\ invocations[k].args[1].type = "proxy"
              /\ invocations[k].args[2].type = "proxy"
              /\ invocations[k].args[1] # invocations[k].args[2]

C27_WitnessFailure ==
    \E c \in FoundFunction :
        /\ callbacks[c].args = <<SO(123), SO(124)>>
        /\ \E d \in DescribesOf(c) : describes[d].stage = "done"
        /\ \E d \in DescribesOf(c) : describes[d].stage = "failed"
        /\ InvocationsOf(c) = {}
        /\ \E i \in RepliesTo(c) : replies[i].error

\* callback c found its function at arrival, is decoding its arguments, and
\* its handle no longer resolves to that function: the frame that held the
\* function has been popped meanwhile
FunctionGone(c) ==
    /\ c \in FoundFunction
    /\ callbacks[c].pc = "decode"
    /\ findScriptObject(State, callbacks[c].target) # callbacks[c].fn

\* the step calls the function callback c found at arrival, with the decoded
\* arguments
InvokedNow(c) ==
    /\ Len(invocations') = Len(invocations) + 1
    /\ invocations'[Len(invocations')].callback = c
    /\ invocations'[Len(invocations')].fn = callbacks[c].fn
    /\ callbacks'[c].pc \in {"resolved", "rejected"}

\* C28 (under ArgumentSpec): the function of a callback is the one its handle
\* resolved to when the callback arrived.  A callback that is decoding keeps
\* it whatever happens to the frame stack; when the last description of its
\* arguments finishes and none has failed, that function is called in the
\* same step, also when its handle no longer resolves (the call that carried
\* the function has settled and its frame is popped); a callback whose
\* descriptions are all done without a failure has had its function called.
C28_ResolvedAtArrival ==
    /\ [][\A c \in FoundFunction :
             /\ callbacks'[c].fn = callbacks[c].fn
             /\ (/\ callbacks[c].pc = "decode"
                 /\ callbacks'[c].pc # "decode"
                 /\ ~DecodingFailed(c)')
                   => InvokedNow(c)
             /\ (FunctionGone(c) /\ callbacks'[c].pc = "decode")
                   => /\ InvocationsOf(c)' = {}
                      /\ RepliesTo(c)' = {}]_vars
    /\ [](\A c \in FoundFunction :
             (/\ ~DecodingFailed(c)
              /\ \A d \in DescribesOf(c) : describes[d].stage = "done")
             => \E k \in InvocationsOf(c) : invocations[k].fn = callbacks[c].fn)

\* C28, its case: a callback is decoding a handle (the first round trip is
\* over), the function it found is an argument of a method call that has
\* settled since, and the handle of the callback resolves to nothing.
C28_Witness ==
    \E c \in 1..Len(callbacks) :
        /\ FunctionGone(c)
        /\ findScriptObject(State, callbacks[c].target) = Undefined
        /\ \E d \in DescribesOf(c) :
              describes[d].stage = API_SERVER_METHOD_DESCRIBE_FUNCTIONS
        /\ \E o \in 1..Len(ops) :
              /\ ops[o].kind = "call"
              /\ callbacks[c].fn \in Range(ops[o].args)
              /\ ops[o].pc \in {"resolved", "rejected"}

\* the same callback later: its function has been called although its handle
\* resolves to nothing
C28_WitnessInvoked ==
    \E c \in FoundFunction :
        /\ InvocationsOf(c) # {}
        /\ DescribesOf(c) # {}
        /\ findScriptObject(State, callbacks[c].target) = Undefined
        /\ \E o \in 1..Len(ops) :
              /\ ops[o].kind = "call"
              /\ callbacks[c].fn \in Range(ops[o].args)
              /\ ops[o].pc \in {"resolved", "rejected"}

\* the step calls a local function, which throws or returns a promise that
\* rejects, while a send function is supplied
FunctionFails ==
    /\ Len(invocations') = Len(invocations) + 1
    /\ IsThrown(invocations'[Len(invocations')].ret)
    /\ sendMessage = "supplied"

\* the request the step's inbound message answers, if it is a reply
Answered == IF inbound'.method = "" THEN {inbound'.id} ELSE {}

\* C29: the step in which the function called for a callback throws (or its
\* promise rejects) sends exactly one reply, an error with the id of the
\* callback whose data is the message of the exception, and no request;
\* no task of the caller changes (nothing is rejected or resolved), the
\* frame stack, the handle counter and every handle assignment are unchanged
\* (the only entry the step may add is the proxy of the callback's last
\* argument, built in the same step before the call), and every pending
\* request but the one the step answers is still awaited by the same task;
\* the callback has that one reply ever after.
C29_FunctionFailure ==
    /\ [][FunctionFails =>
             LET k == Len(invocations')
                 c == invocations'[k].callback
             IN  /\ Len(replies') = Len(replies) + 1
                 /\ replies'[Len(replies')]
                       = [id |-> callbacks'[c].id, result |-> invocations'[k].ret,
                          error |-> TRUE]
                 /\ callbacks'[c].pc = "rejected"
                 /\ sent' = sent
                 /\ ops' = ops
                 /\ scriptObjectListStack' = scriptObjectListStack
                 /\ \A x \in DOMAIN scriptObjectIdMap :
                       /\ x \in DOMAIN scriptObjectIdMap'
                       /\ scriptObjectIdMap'[x] = scriptObjectIdMap[x]
                 /\ \A x \in DOMAIN scriptObjectIdMap' \ DOMAIN scriptObjectIdMap :
                       /\ x.type = "proxy"
                       /\ x.n = Len(proxies')
                       /\ Len(proxies') = Len(proxies) + 1
                 /\ lastScriptObjectId' = lastScriptObjectId
                 /\ waiting' = [id \in DOMAIN waiting \ Answered |-> waiting[id]]
                 /\ sendErrors' = sendErrors]_vars
    /\ [](\A k \in 1..Len(invocations) :
             (IsThrown(invocations[k].ret) /\ invocations[k].send = "supplied")
             => /\ Cardinality(RepliesTo(invocations[k].callback)) = 1
                /\ \A i \in RepliesTo(invocations[k].callback) : replies[i].error)

\* C29, its case: a function threw while a method call and another request
\* were pending; the callback has its error reply, the call is still pending
\* with its frame on the stack.
C29_Witness ==
    \E k \in 1..Len(invocations) :
        /\ IsThrown(invocations[k].ret)
        /\ \E i \in RepliesTo(invocations[k].callback) : replies[i].error
        /\ \E o \in 1..Len(ops) :
              /\ ops[o].kind = "call"
              /\ ops[o].pc = "await"
              /\ invocations[k].fn \in Range(ops[o].args)
              /\ \E i \in 1..Len(scriptObjectListStack) :
                    scriptObjectListStack[i].call = o

(***************************************************************************)
(* No retry.                                                               *)
(***************************************************************************)
\* the request method of a property read, a property write, a method call
MethodOf(kind) ==
    CASE kind = "get" -> API_SERVER_METHOD_GET_VALUE
      [] kind = "set" -> API_SERVER_METHOD_SET_VALUE
      [] kind = "call" -> API_SERVER_METHOD_CALL_FUNCTION

ProxyOperations == {o \in 1..Len(ops) : ops[o].kind \in {"get", "set", "call"}}

\* the get, set or execute requests sent by operation o
OwnRequests(o) == RequestsOf(o, MethodOf(ops[o].kind))

\* the step processes an error reply to a pending request
ErrorReplyArrives ==
    /\ inbound'.method = ""
    /\ inbound'.id \in DOMAIN waiting
    /\ inbound'.error

\* the task awaiting the request is o, or o is initialize and awaits the
\* registerCallback call that awaits it
AwaitedBy(id, o) ==
    \/ waiting[id].op = o
    \/ ops[waiting[id].op].parent = o

\* C30: requests are never sent twice.  The ids of the requests sent are
\* pairwise distinct and what was sent stays as it was sent.  A property
\* read, a property write or a method call sends its get, set or execute
\* request in the step that invokes it, exactly one, or is rejected in that
\* step without sending (a value that cannot be encoded), and sends none
\* afterwards; initialize sends authenticate and getRootObject at most once.
\* The step that processes an error reply to a pending request sends
\* nothing, rejects the task awaiting that request (and initialize, when the
\* task is one of its registerCallback calls) and changes no other task; a
\* pending task settles only in a step that processes the reply to a request
\* it awaits.
C30_NoRetry ==
    /\ [](\A i, j \in 1..Len(sent) : sent[i].id = sent[j].id => i = j)
    /\ [](\A o \in ProxyOperations :
             /\ Cardinality(OwnRequests(o)) <= 1
             /\ ops[o].pc \in {"await", "decode", "resolved"}
                   => Cardinality(OwnRequests(o)) = 1)
    /\ [](\A o \in 1..Len(ops) : ops[o].kind = "initialize" =>
             /\ Cardinality(RequestsOf(o, API_SERVER_METHOD_AUTHENTICATE)) <= 1
             /\ Cardinality(RequestsOf(o, API_SERVER_METHOD_GET_ROOT_OBJECT)) <= 1)
    /\ [][/\ Len(sent') >= Len(sent)
          /\ SubSeq(sent', 1, Len(sent)) = sent
          /\ \A o \in ProxyOperations : OwnRequests(o)' = OwnRequests(o)
          /\ \A o \in ProxyOperations' \ ProxyOperations :
                \/ Cardinality(OwnRequests(o)') = 1 /\ ops'[o].pc = "await"
                \/ OwnRequests(o)' = {} /\ ops'[o].pc = "rejected"
          /\ ErrorReplyArrives =>
                /\ sent' = sent
                /\ Len(ops') = Len(ops)
                /\ waiting' = [id \in DOMAIN waiting \ {inbound'.id} |-> waiting[id]]
                /\ \A o \in 1..Len(ops) :
                      IF AwaitedBy(inbound'.id, o)
                      THEN /\ IsPending(o)
                           /\ ops'[o].pc = "rejected"
                      ELSE ops'[o] = ops[o]
          /\ \A o \in 1..Len(ops) :
                (IsPending(o) /\ ops'[o].pc \in {"resolved", "rejected"})
                => /\ inbound'.method = ""
                   /\ inbound'.id \in DOMAIN waiting
                   /\ AwaitedBy(inbound'.id, o)]_vars

\* C30, its case: of two method calls pending together one was rejected by
\* an error reply; it has sent one execute request, the other one is still
\* pending with its one request unanswered.
C30_Witness ==
    \E o, q \in Calls :
        /\ ops[o].parent = 0
        /\ ops[q].parent = 0
        /\ o < q
        /\ ops[o].pc = "rejected"
        /\ ops[o].result = Thrown("rpc error")
        /\ Cardinality(OwnRequests(o)) = 1
        /\ ops[q].pc = "await"
        /\ \E i \in OwnRequests(q) : sent[i].id \in DOMAIN waiting

\* a method call was rejected without sending: an argument cannot be encoded
C30_WitnessNotSent ==
    \E o \in Calls : ops[o].pc = "rejected" /\ OwnRequests(o) = {} /\ ops[o].parent = 0

(***************************************************************************)
(* initialize: the result of authenticate, the registration of the global  *)
(* callbacks.                                                              *)
(***************************************************************************)
\* C31: the step that processes a reply to authenticate carrying no error
\* sends exactly one request, getRootObject without parameters, on behalf of
\* the same initialize, which goes on waiting, whatever the result of the
\* reply is; the step that processes an error reply sends nothing and
\* rejects initialize.
C31_AuthenticateResultIgnored ==
    [][ReplyArrivesTo(API_SERVER_METHOD_AUTHENTICATE) =>
          LET o == waiting[inbound'.id].op
          IN  IF inbound'.error
              THEN /\ sent' = sent
                   /\ ops'[o].pc = "rejected"
              ELSE /\ Len(sent') = Len(sent) + 1
                   /\ sent'[Len(sent')].method = API_SERVER_METHOD_GET_ROOT_OBJECT
                   /\ sent'[Len(sent')].params = <<>>
                   /\ sent'[Len(sent')].by = o
                   /\ sent'[Len(sent')].id \in DOMAIN waiting'
                   /\ ops'[o].pc = "await"
                   /\ ops'[o].stage = API_SERVER_METHOD_GET_ROOT_OBJECT]_vars

\* C31, its case: the peer has answered authenticate with `false`, and
\* getRootObject is the request sent next, still unanswered.
C31_Witness ==
    /\ inbound.method = ""
    /\ inbound.id \in 1..Len(sent)
    /\ sent[inbound.id].method = API_SERVER_METHOD_AUTHENTICATE
    /\ ~inbound.error
    /\ inbound.result = Bool(FALSE)
    /\ Len(sent) = inbound.id + 1
    /\ sent[Len(sent)].method = API_SERVER_METHOD_GET_ROOT_OBJECT
    /\ sent[Len(sent)].id \in DOMAIN waiting

\* the step processes an error reply to the execute request of a
\* registerCallback call made by initialize
RegistrationFails ==
    /\ ReplyArrivesTo(API_SERVER_METHOD_CALL_FUNCTION)
    /\ inbound'.error
    /\ ops[waiting[inbound'.id].op].parent # 0

\* the execute requests sent by the calls initialize o has made
RegistrationRequests(o) ==
    SelectSeq(sent, LAMBDA m : /\ m.method = API_SERVER_METHOD_CALL_FUNCTION
                               /\ m.by \in Calls
                               /\ ops[m.by].parent = o)

\* C32 as stated (under RegistrationSpec): when a registerCallback call made
\* by initialize is answered with an error, initialize rejects, nothing is
\* sent, and the frame of that call is no longer on the stack while every
\* other frame is.
C32_FailedRegistrationPopsItsFrame ==
    [][RegistrationFails =>
          LET c == waiting[inbound'.id].op
          IN  /\ ops'[c].pc = "rejected"
              /\ ops'[ops[c].parent].pc = "rejected"
              /\ sent' = sent
              /\ scriptObjectListStack' = WithoutFramesOf(scriptObjectListStack, c)]_vars

\* what holds of C32: the step that processes the error reply to a
\* registerCallback call of initialize rejects the call and initialize, sends
\* nothing and removes exactly one frame, the front one; initialize rejected
\* while registering entry idx has made idx calls and no more; an initialize
\* with no global callback sends no execute request.
C32_FailedRegistrationStopsInitialize ==
    /\ [][RegistrationFails =>
             LET c == waiting[inbound'.id].op
             IN  /\ ops'[c].pc = "rejected"
                 /\ ops'[ops[c].parent].pc = "rejected"
                 /\ ops'[ops[c].parent].result = Thrown("rpc error")
                 /\ sent' = sent
                 /\ Len(ops') = Len(ops)
                 /\ scriptObjectListStack' = Tail(scriptObjectListStack)]_vars
    /\ [](\A o \in InitOps :
             /\ ops[o].stage = "registerCallback"
                   => Len(RegistrationRequests(o)) = ops[o].idx
             /\ ops[o].stage # "registerCallback"
                   => Len(RegistrationRequests(o)) = 0
             /\ Len(RegistrationRequests(o)) <= Len(globalCallbacksMap))

(***************************************************************************)
(* What touches the frames and the handle counter.                         *)
(***************************************************************************)
\* the step invokes a proxy method (the caller does, or initialize for a
\* global callback)
MethodInvoked == \E o \in (1..Len(ops')) \ (1..Len(ops)) : ops'[o].kind = "call"

\* the step invokes a property read or a property write
ReadOrWriteInvoked ==
    \E o \in (1..Len(ops')) \ (1..Len(ops)) : ops'[o].kind \in {"get", "set"}

\* the references that have a local handle: all but the proxies
LocalReferences(idMap) == {x \in DOMAIN idMap : x.type # "proxy"}

FramesAndCounterUnchanged ==
    /\ scriptObjectListStack' = scriptObjectListStack
    /\ lastScriptObjectId' = lastScriptObjectId
    /\ LocalReferences(scriptObjectIdMap') = LocalReferences(scriptObjectIdMap)

\* C33: a step that changes the frame stack, the handle counter or the set
\* of references with a local handle invokes a proxy method or settles one;
\* the counter and that set change only in a step that invokes one, a frame
\* is added only in such a step, a frame is removed only in a step in which
\* a proxy method call settles.  In particular the step that invokes a
\* property read or write, the step that processes an inbound callback, and
\* the step that processes the reply to get, set, listProperties or
\* listMethods, unless it settles a method call or makes initialize invoke
\* registerCallback, leave all three as they were.
C33_OnlyMethodCallsTouchFrames ==
    [][/\ (\/ lastScriptObjectId' # lastScriptObjectId
           \/ LocalReferences(scriptObjectIdMap') # LocalReferences(scriptObjectIdMap))
             => MethodInvoked
       /\ (\E i \in 1..Len(scriptObjectListStack') :
              \A j \in 1..Len(scriptObjectListStack) :
                 scriptObjectListStack'[i] # scriptObjectListStack[j])
             => MethodInvoked
       /\ Len(FramesKept) < Len(scriptObjectListStack)
             => \E c \in PendingCalls : CallSettles(c)
       /\ (ReadOrWriteInvoked \/ CallbackArrives) => FramesAndCounterUnchanged
       /\ (/\ \/ ReplyArrivesTo(API_SERVER_METHOD_GET_VALUE)
              \/ ReplyArrivesTo(API_SERVER_METHOD_SET_VALUE)
              \/ ReplyArrivesTo(API_SERVER_METHOD_DESCRIBE_VARIABLES)
              \/ ReplyArrivesTo(API_SERVER_METHOD_DESCRIBE_FUNCTIONS)
           /\ ~MethodInvoked
           /\ \A c \in PendingCalls : ~CallSettles(c))
             => FramesAndCounterUnchanged]_vars

\* C33, its case: a property read has materialized a proxy, a function has
\* been assigned to a property (the write was refused: the function has no
\* handle), a callback has been dispatched, and the stack holds the frame of
\* the constructor alone, the counter counting the global callbacks alone.
C33_Witness ==
    /\ \E o \in 1..Len(ops) : /\ ops[o].kind = "get"
                              /\ ops[o].pc = "resolved"
                              /\ ops[o].result.type = "proxy"
    /\ \E o \in 1..Len(ops) : /\ ops[o].kind = "set"
                              /\ ops[o].args = <<LocalFn1>>
    /\ Len(callbacks) > 0
    /\ Len(globalCallbacksMap) = 2
    /\ Len(scriptObjectListStack) = 1
    /\ lastScriptObjectId = Cardinality(Range(ObjectValues(globalCallbacksMap)))

(***************************************************************************)
(* Member names that occur twice.                                          *)
(***************************************************************************)
\* the step processes a reply to listMethods without error that completes a
\* description in which a name occurs twice
DuplicateNameArrives ==
    /\ ReplyArrivesTo(API_SERVER_METHOD_DESCRIBE_FUNCTIONS)
    /\ ~inbound'.error
    /\ HasDuplicates(describes[waiting[inbound'.id].d].properties \o inbound'.names)

\* C35 (under MemberSpec): the step that processes a listMethods reply
\* completing a description in which a name occurs twice (twice among the
\* properties, twice among the methods, or once in each) builds no proxy,
\* sends no request and fails the description; the task that was decoding
\* the handle (initialize, a property read) is rejected with a TypeError and
\* has no proxy; the callback that was decoding it as an argument is
\* answered with an error and its function is not called.  No task ever
\* resolves with, and no function is ever called with, a proxy in which a
\* name occurs twice.
C35_DuplicateNameFails ==
    /\ [][DuplicateNameArrives =>
             LET d == waiting[inbound'.id].d
                 o == describes[d].op
             IN  /\ proxies' = proxies
                 /\ sent' = sent
                 /\ invocations' = invocations
                 /\ describes'[d].stage = "failed"
                 /\ IF describes[d].slot = 0
                    THEN /\ ops'[o].pc = "rejected"
                         /\ ops'[o].result = Thrown("TypeError")
                         /\ replies' = replies
                    ELSE /\ callbacks'[o].pc = "rejected"
                         /\ callbacks[o].pc = "decode"
                               => /\ Len(replies') = Len(replies) + 1
                                  /\ replies'[Len(replies')].id = callbacks[o].id
                                  /\ replies'[Len(replies')].error]_vars
    /\ [](\A i \in 1..Len(proxies) :
             ~HasDuplicates(proxies[i].properties \o proxies[i].methods))

\* C35, its cases.  A property read is rejected: the value was a handle
\* described with the property n and the method n.
C35_Witness ==
    \E d \in 1..Len(describes) :
        /\ describes[d].stage = "failed"
        /\ describes[d].slot = 0
        /\ ops[describes[d].op].kind = "get"
        /\ ops[describes[d].op].result = Thrown("TypeError")
        /\ describes[d].properties = <<"n">>
        /\ inbound.names = <<"n">>
        /\ inbound.id \in 1..Len(sent)
        /\ sent[inbound.id].method = API_SERVER_METHOD_DESCRIBE_FUNCTIONS

\* initialize is rejected: the root object was described with the property n
\* twice
C35_WitnessProperties ==
    \E d \in 1..Len(describes) :
        /\ describes[d].stage = "failed"
        /\ describes[d].slot = 0
        /\ ops[describes[d].op].kind = "initialize"
        /\ ops[describes[d].op].result = Thrown("TypeError")
        /\ describes[d].properties = <<"n", "n">>
        /\ inbound.names = <<"registerCallback">>

\* a callback is answered with an error, its function not called: its
\* argument was described with the method f twice
C35_WitnessMethods ==
    \E d \in 1..Len(describes) :
        /\ describes[d].stage = "failed"
        /\ describes[d].slot > 0
        /\ describes[d].properties = <<"n">>
        /\ inbound.names = <<"f", "f">>
        /\ InvocationsOf(describes[d].op) = {}
        /\ \E i \in RepliesTo(describes[d].op) : replies[i].error

(***************************************************************************)
(* The ConnectionManager.                                                  *)
(***************************************************************************)
\* the messages the step hands to sendMessage that are taken: the requests
\* and the replies the RPCManager sends in the step
SentInStep ==
    SubSeq(sent', Len(sent) + 1, Len(sent'))
        \o SubSeq(replies', Len(replies) + 1, Len(replies'))

\* what is passed to the socket openConnection opened last, and to it alone:
\* every message the step sends, in order, the calls of send that throw
\* included; nothing is sent before openConnection without an exception
SendsGoToTheSocket ==
    /\ \A s \in 1..Len(sockets) :
          /\ sockets'[s].sends
                = sockets[s].sends
                     \o (IF s = Len(sockets) THEN SentInStep ELSE <<>>)
          /\ sockets'[s].refused
                = sockets[s].refused
                     + (IF s = Len(sockets) THEN sendErrors' - sendErrors ELSE 0)
    /\ sockets = <<>> => SentInStep = <<>>

\* the calls of processMessage are the message events: those of socket s are
\* its events 1, 2, ... in this order, each once, and there are no others
RECURSIVE SumOfMessages(_)
SumOfMessages(socks) ==
    IF socks = <<>> THEN 0 ELSE Head(socks).messages + SumOfMessages(Tail(socks))

MessagesProcessedInOrder ==
    /\ Len(processed) = SumOfMessages(sockets)
    /\ \A s \in 1..Len(sockets) :
          LET mine == SelectSeq(processed, LAMBDA e : e.socket = s)
          IN  /\ Len(mine) = sockets[s].messages
              /\ \A k \in 1..Len(mine) : mine[k].event = k

\* a step that dispatches a message event calls processMessage with it as its
\* last call; no other step calls processMessage
EventsAreProcessed ==
    IF \E s \in 1..Len(sockets) : sockets'[s].messages # sockets[s].messages
    THEN /\ Len(processed') = Len(processed) + 1
         /\ SubSeq(processed', 1, Len(processed)) = processed
         /\ inbound'.id # 0
    ELSE processed' = processed

\* onClose is called once in a step that dispatches a close event while it
\* is set, and in no other step
OnCloseIsCalled ==
    LET closing == {s \in 1..Len(sockets) : /\ sockets[s].readyState # "closed"
                                            /\ sockets'[s].readyState = "closed"}
    IN  connectionManager'.onCloseCalls
           = connectionManager.onCloseCalls
                + (IF connectionManager.onClose = "function"
                   THEN Cardinality(closing) ELSE 0)

\* C34 as stated (under ConnectionSpec): sends go to the socket, message
\* events are processed once and in order, onClose is called on every close
\* event, and the promise of a socket is resolved once the socket has opened
\* and rejected once it has reported an error.
C34_ConnectionWiring ==
    /\ [][SendsGoToTheSocket /\ EventsAreProcessed /\ OnCloseIsCalled]_vars
    /\ [](MessagesProcessedInOrder)
    /\ [](\A s \in 1..Len(sockets) :
             /\ sockets[s].opened => sockets[s].promise = "resolved"
             /\ sockets[s].failed => sockets[s].promise = "rejected")

\* C34 as amended: the same, but the promise is settled by the first of the
\* two events: it is resolved exactly when the socket has opened, rejected
\* exactly when the socket has reported an error without having opened, and
\* pending otherwise; an error reported after the open event leaves it
\* resolved.
C34_ConnectionWiringFirstEvent ==
    /\ [][SendsGoToTheSocket /\ EventsAreProcessed /\ OnCloseIsCalled]_vars
    /\ [](MessagesProcessedInOrder)
    /\ [](\A s \in 1..Len(sockets) :
             sockets[s].promise
                = IF sockets[s].opened THEN "resolved"
                  ELSE IF sockets[s].failed THEN "rejected"
                  ELSE "pending")

\* C34, its case: a socket has opened, has taken a request and a reply, has
\* dispatched two message events, both processed, has then reported an
\* error and closed; onClose was called and the promise is resolved.
C34_Witness ==
    \E s \in 1..Len(sockets) :
        /\ sockets[s].opened
        /\ sockets[s].failed
        /\ sockets[s].readyState = "closed"
        /\ sockets[s].promise = "resolved"
        /\ Len(sockets[s].sends) >= 2
        /\ sockets[s].messages = 2
        /\ Len(processed) >= 2
        /\ connectionManager.onCloseCalls >= 1

\* C34: two sockets; the one opened first still dispatches a message after
\* the second call of openConnection, and the reply to it is passed to the
\* second socket.
C34_WitnessTwoSockets ==
    /\ Len(sockets) = 2
    /\ Len(processed) >= 1
    /\ processed[Len(processed)].socket = 1
    /\ sockets[2].sends # <<>>
    /\ sockets[2].promise = "rejected"

====
